---- MODULE Spec2Model ----
(***************************************************************************)
(* xcover: exact cover with colors by dancing cells.                       *)
(*                                                                         *)
(* The module models the two search generators of the package,            *)
(*   algorithm_c  (src/src/xcover/dancing_cells.py)      yields solutions, *)
(*   algorithm_z  (src/src/xcover/dancing_cells_zdd.py)  yields ZDD nodes, *)
(* as one state machine.  A state holds the encoded problem (the arrays    *)
(* handed to the generator), the sparse-set substrate, the stacks of the   *)
(* depth-first search and the sequence of values yielded so far.  One      *)
(* action is one iteration of the generator's `while node_stack` loop.     *)
(*                                                                         *)
(* Arrays are functions on 0..n-1 (the source indexes from 0); python      *)
(* lists used as stacks are sequences whose last element is the top.       *)
(***************************************************************************)
EXTENDS Integers, Sequences, FiniteSets, TLC

\* Bounds of the problems the search is run on.
MaxPrimary == 2
MaxSecondary == 1
MaxColor == 2
MaxOpts == 4

VARIABLES
    \* the encoded problem and the flags: arguments of the generator
    algorithm, options, options_ptr, colors, n_items, n_secondary_items,
    use_memo_cache, choose_heuristic,
    \* the sparse-set substrate
    matrix_size, matrix_set, matrix_loc,
    matrix_active_items, matrix_active_items_sparse,
    matrix_active_items_len, matrix_old_active_items_len,
    item_colorings,
    \* the search stacks
    solution, node_stack, item_stack, state_stack, need_to_undo,
    \* algorithm_z only
    zdd_stack, zdd_index, memo_stack, memo_cache,
    \* what the generator has yielded, and the exception that ended it
    yielded, raised,
    \* the generators of a caller that holds several search handles
    handles,
    \* a call of covers: its arguments and what input_as_arrays made of them
    encoder

problem == <<algorithm, options, options_ptr, colors, n_items, n_secondary_items,
             use_memo_cache, choose_heuristic>>

substrate == <<matrix_size, matrix_set, matrix_loc, matrix_active_items,
               matrix_active_items_sparse, matrix_active_items_len,
               matrix_old_active_items_len, item_colorings>>

stacks == <<solution, node_stack, item_stack, state_stack, need_to_undo>>

zdd == <<zdd_stack, zdd_index, memo_stack, memo_cache>>

\* the variables outside the generator that the actions of the loop drive
callers == <<handles, encoder>>

vars == <<problem, substrate, stacks, zdd, yielded, raised, callers>>

(***************************************************************************)
(* Encoded problems.  An option is a set of items, each secondary item     *)
(* with a color (0: none); it is listed in ascending item order and holds  *)
(* at least one primary item.  A problem is a set of 1..MaxOpts distinct   *)
(* options, listed in ascending order of OptionCode.                       *)
(***************************************************************************)
RECURSIVE SetToSeq(_)
SetToSeq(S) ==
    IF S = {} THEN <<>>
    ELSE LET x == CHOOSE y \in S : \A z \in S : y <= z
         IN <<x>> \o SetToSeq(S \ {x})

RECURSIVE Pow(_, _)
Pow(b, e) == IF e = 0 THEN 1 ELSE b * Pow(b, e - 1)

RECURSIVE SumOver(_, _)
SumOver(f, D) ==
    IF D = {} THEN 0
    ELSE LET x == CHOOSE y \in D : TRUE
         IN f[x] + SumOver(f, D \ {x})

\* An option as a function from its items to their colors.
OptionShapes(np, ns) ==
    { c \in UNION { [D -> 0..MaxColor] : D \in SUBSET (0..(np + ns - 1)) } :
        /\ \E i \in DOMAIN c : i < np
        /\ \A i \in DOMAIN c : i < np => c[i] = 0 }

OptionCode(c) ==
    SumOver([i \in DOMAIN c |-> (1 + c[i]) * Pow(MaxColor + 2, i)], DOMAIN c)

RECURSIVE SubsetsUpTo(_, _)
SubsetsUpTo(S, k) ==
    IF k = 0 \/ S = {} THEN {{}}
    ELSE LET x == CHOOSE y \in S : TRUE
             rest == S \ {x}
         IN SubsetsUpTo(rest, k) \cup { T \cup {x} : T \in SubsetsUpTo(rest, k - 1) }

RECURSIVE SortOptions(_)
SortOptions(S) ==
    IF S = {} THEN <<>>
    ELSE LET c == CHOOSE d \in S : \A e \in S : OptionCode(d) <= OptionCode(e)
         IN <<c>> \o SortOptions(S \ {c})

\* The nodes of one option: <<item, color>> pairs in ascending item order.
OptionNodes(c) ==
    LET its == SetToSeq(DOMAIN c)
    IN [k \in 1..Len(its) |-> <<its[k], c[its[k]]>>]

RECURSIVE Flatten(_)
Flatten(ss) == IF ss = <<>> THEN <<>> ELSE Head(ss) \o Flatten(Tail(ss))

\* The arrays input_as_arrays returns for the list of options opts.
EncodedArrays(opts, np, ns) ==
    LET nodes == Flatten([j \in 1..Len(opts) |-> OptionNodes(opts[j])])
        lens  == [j \in 1..Len(opts) |-> Cardinality(DOMAIN opts[j])]
    IN [ options     |-> [k \in 0..(Len(nodes) - 1) |-> nodes[k + 1][1]],
         colors      |-> [k \in 0..(Len(nodes) - 1) |-> nodes[k + 1][2]],
         options_ptr |-> [j \in 0..Len(opts) |-> SumOver(lens, 1..j)],
         n_items     |-> np + ns,
         n_secondary_items |-> ns ]

EncodedProblems ==
    UNION { { EncodedArrays(SortOptions(S), np, ns) :
                S \in SubsetsUpTo(OptionShapes(np, ns), MaxOpts) \ {{}} } :
            np \in 1..MaxPrimary, ns \in 0..MaxSecondary }

(***************************************************************************)
(* C1: quantities derived from the arguments.                              *)
(***************************************************************************)
n_data == Cardinality(DOMAIN options)

n_opts == Cardinality(DOMAIN options_ptr) - 1

n_primary_items == n_items - n_secondary_items

n_colors ==
    IF n_data = 0 THEN 0
    ELSE CHOOSE c \in {colors[k] : k \in DOMAIN colors} :
            \A k \in DOMAIN colors : colors[k] <= c

\* options_j gives the option index of each node
options_j(node) ==
    CHOOSE j \in 0..(n_opts - 1) : options_ptr[j] <= node /\ node < options_ptr[j + 1]

\* the nodes of option j, in order
ptr_range(j) == options_ptr[j]..(options_ptr[j + 1] - 1)

\* matrix_start_ptr points to the start of the column of each item
matrix_start_ptr(i) == Cardinality({k \in DOMAIN options : options[k] < i})

\* the matrix as C1 builds it from arrays `opt` (items of the nodes)
InitialSize(opt, nit) ==
    [i \in 0..(nit - 1) |-> Cardinality({k \in DOMAIN opt : opt[k] = i})]

InitialLoc(opt) ==
    [node \in DOMAIN opt |->
        Cardinality({k \in DOMAIN opt : opt[k] < opt[node]})
        + Cardinality({k \in DOMAIN opt : opt[k] = opt[node] /\ k < node})]

InitialSet(opt) ==
    LET loc == InitialLoc(opt)
    IN [p \in DOMAIN opt |-> CHOOSE node \in DOMAIN opt : loc[node] = p]

(***************************************************************************)
(* The local state of one generator as a record: the substrate, the stacks *)
(* and the output.  The nested loops of hide and cover, and each iteration *)
(* of the main loop, are operators from such a record to the next one.     *)
(***************************************************************************)
Frame ==
    [ algorithm |-> algorithm,
      matrix_size |-> matrix_size, matrix_set |-> matrix_set,
      matrix_loc |-> matrix_loc, matrix_active_items |-> matrix_active_items,
      matrix_active_items_sparse |-> matrix_active_items_sparse,
      matrix_active_items_len |-> matrix_active_items_len,
      matrix_old_active_items_len |-> matrix_old_active_items_len,
      item_colorings |-> item_colorings,
      solution |-> solution, node_stack |-> node_stack, item_stack |-> item_stack,
      state_stack |-> state_stack, need_to_undo |-> need_to_undo,
      zdd_stack |-> zdd_stack, zdd_index |-> zdd_index,
      memo_stack |-> memo_stack, memo_cache |-> memo_cache,
      yielded |-> yielded, raised |-> raised ]

Store(m) ==
    /\ matrix_size' = m.matrix_size
    /\ matrix_set' = m.matrix_set
    /\ matrix_loc' = m.matrix_loc
    /\ matrix_active_items' = m.matrix_active_items
    /\ matrix_active_items_sparse' = m.matrix_active_items_sparse
    /\ matrix_active_items_len' = m.matrix_active_items_len
    /\ matrix_old_active_items_len' = m.matrix_old_active_items_len
    /\ item_colorings' = m.item_colorings
    /\ solution' = m.solution
    /\ node_stack' = m.node_stack
    /\ item_stack' = m.item_stack
    /\ state_stack' = m.state_stack
    /\ need_to_undo' = m.need_to_undo
    /\ zdd_stack' = m.zdd_stack
    /\ zdd_index' = m.zdd_index
    /\ memo_stack' = m.memo_stack
    /\ memo_cache' = m.memo_cache
    /\ yielded' = m.yielded
    /\ raised' = m.raised

\* Insert an item into position index in the active_items sparse set
active_insert(m, item, index) ==
    [m EXCEPT !.matrix_active_items[index] = item,
              !.matrix_active_items_sparse[item] = index]

\* deactivate_item that moves the item to the end of the active part and
\* leaves the length of the active part as it is
deactivate_item_keep_len(m, item) ==
    LET end_index == m.matrix_active_items_len - 1
        end_item  == m.matrix_active_items[end_index]
        index     == m.matrix_active_items_sparse[item]
        m1 == active_insert(m, end_item, index)
    IN active_insert(m1, item, end_index)

\* C3: make an item inactive: remove from active_items list
deactivate_item(m, item) ==
    LET end_index == m.matrix_active_items_len - 1
        end_item  == m.matrix_active_items[end_index]
        index     == m.matrix_active_items_sparse[item]
        m1 == active_insert(m, end_item, index)
        m2 == active_insert(m1, item, end_index)
    IN [m2 EXCEPT !.matrix_active_items_len = @ - 1]

\* is the item in the first len entries of matrix_active_items
IsActive(m, item, len) == m.matrix_active_items_sparse[item] < len

\* active_options that reads the first position of the column only
active_options_first(m, item) ==
    [k \in 1..m.matrix_size[item] |-> m.matrix_set[matrix_start_ptr(item)]]

\* active_options that lists the column from its last active position
active_options_reversed(m, item) ==
    [k \in 1..m.matrix_size[item] |->
        m.matrix_set[matrix_start_ptr(item) + m.matrix_size[item] - k]]

\* the active options of a given item, as a list
active_options(m, item) ==
    [k \in 1..m.matrix_size[item] |-> m.matrix_set[matrix_start_ptr(item) + k - 1]]

\* remove_node that swaps the node with the last entry of the whole column
remove_node_to_column_end(m, node) ==
    LET item     == options[node]
        loc      == m.matrix_loc[node]
        end_loc  == matrix_start_ptr(item + 1) - 1
        end_node == m.matrix_set[end_loc]
        m1 == [m  EXCEPT !.matrix_set[loc] = end_node]
        m2 == [m1 EXCEPT !.matrix_set[end_loc] = node]
        m3 == [m2 EXCEPT !.matrix_loc[end_node] = loc]
        m4 == [m3 EXCEPT !.matrix_loc[node] = end_loc]
    IN [m4 EXCEPT !.matrix_size[item] = @ - 1]

\* remove_node that swaps the entries of matrix_set and leaves matrix_loc
remove_node_stale_loc(m, node) ==
    LET item     == options[node]
        loc      == m.matrix_loc[node]
        end_loc  == matrix_start_ptr(item) + m.matrix_size[item] - 1
        end_node == m.matrix_set[end_loc]
        m1 == [m  EXCEPT !.matrix_set[loc] = end_node]
        m2 == [m1 EXCEPT !.matrix_set[end_loc] = node]
    IN [m2 EXCEPT !.matrix_size[item] = @ - 1]

\* remove a node from the matrix
remove_node(m, node) ==
    LET item     == options[node]
        loc      == m.matrix_loc[node]
        end_loc  == matrix_start_ptr(item) + m.matrix_size[item] - 1
        end_node == m.matrix_set[end_loc]
        m1 == [m  EXCEPT !.matrix_set[loc] = end_node]
        m2 == [m1 EXCEPT !.matrix_set[end_loc] = node]
        m3 == [m2 EXCEPT !.matrix_loc[end_node] = loc]
        m4 == [m3 EXCEPT !.matrix_loc[node] = end_loc]
    IN [m4 EXCEPT !.matrix_size[item] = @ - 1]

(***************************************************************************)
(* hide and cover.  Both return the substrate they leave behind: an        *)
(* aborted hide returns from the middle of its loops and leaves the        *)
(* removals made so far in place.                                          *)
(***************************************************************************)
\* to_hide that keeps every node of a colored item
to_hide_uncolored(node, col) == col = 0

\* to_hide that hides the nodes of the color and keeps the others
to_hide_same_color(node, col) == col = 0 \/ colors[node] = col

\* to_hide that hides every node of the column, whatever its color
to_hide_all(node, col) == TRUE

\* is the node of the column of the hidden item to be hidden, under coloring col
to_hide(node, col) == col = 0 \/ colors[node] # col

\* last_chance that never ends a hide
last_chance_never(m, iprime, initial) == FALSE

\* would removing the node of iprime delete the last option of an active primary item
last_chance(m, iprime, initial) ==
    /\ ~initial
    /\ m.matrix_size[iprime] = 1
    /\ IsActive(m, iprime, m.matrix_active_items_len)
    /\ iprime < n_primary_items

\* the inner loop of hide: the nodes k..kend-1 of the option of a hidden node
RECURSIVE hide_option(_, _, _, _, _)
hide_option(r, item, initial, k, kend) ==
    IF ~r.status \/ k >= kend THEN r
    ELSE
      LET m      == r.m
          iprime == options[k]
          other  == iprime # item /\ IsActive(m, iprime, m.matrix_old_active_items_len)
          last   == other /\ last_chance(m, iprime, initial)
          m1 == IF other THEN remove_node(m, k) ELSE m
          \* Record the coloring of secondary items for memoization
          m2 == IF m.algorithm = "algorithm_z" /\ iprime >= n_primary_items
                THEN [m1 EXCEPT !.item_colorings[iprime - n_primary_items] = colors[k]]
                ELSE m1
      IN IF last THEN [status |-> FALSE, m |-> m]  \* end if about to delete last
         ELSE hide_option([status |-> TRUE, m |-> m2], item, initial, k + 1, kend)

\* the outer loop of hide: the positions p..pend-1 of the column of item
RECURSIVE hide_nodes(_, _, _, _, _, _)
hide_nodes(r, item, col, initial, p, pend) ==
    IF ~r.status \/ p >= pend THEN r
    ELSE
      LET node == r.m.matrix_set[p]
          j    == options_j(node)
          r1   == IF to_hide(node, col)
                  THEN hide_option(r, item, initial, options_ptr[j], options_ptr[j + 1])
                  ELSE r
      IN hide_nodes(r1, item, col, initial, p + 1, pend)

\* given an item and a coloring col, remove the relevant nodes
hide(m, item, col, initial) ==
    hide_nodes([status |-> TRUE, m |-> m], item, col, initial,
               matrix_start_ptr(item), matrix_start_ptr(item) + m.matrix_size[item])

\* C6: deactivate other items of option (the nodes ptr..pend-1)
RECURSIVE cover_deactivate(_, _, _, _)
cover_deactivate(m, item, ptr, pend) ==
    IF ptr >= pend THEN m
    ELSE
      LET itm == options[ptr]
          m1  == IF itm # item /\ IsActive(m, itm, m.matrix_active_items_len)
                 THEN deactivate_item(m, itm)
                 ELSE m
      IN cover_deactivate(m1, item, ptr + 1, pend)

\* hide_wanted that hides the columns of primary items only
hide_wanted_primary(m, itm, item) == itm # item /\ itm < n_primary_items

\* hide_wanted that hides the column of the covered item as well, which C4
\* has hidden already
hide_wanted_covered(m, itm, item) ==
    \/ itm < n_primary_items
    \/ IsActive(m, itm, m.matrix_old_active_items_len)

\* C7: is the column of itm, an item of the option that covers item, to be hidden
hide_wanted(m, itm, item) ==
    /\ itm # item
    /\ \/ itm < n_primary_items
       \/ IsActive(m, itm, m.matrix_old_active_items_len)

\* C7: hiding nodes (the nodes ptr..pend-1)
RECURSIVE cover_hide(_, _, _, _)
cover_hide(r, item, ptr, pend) ==
    IF ~r.status \/ ptr >= pend THEN r
    ELSE
      LET m        == r.m
          itm      == options[ptr]
          col_hide == colors[ptr]
          r1 == IF hide_wanted(m, itm, item)
                THEN hide(m, itm, col_hide, FALSE)
                ELSE r
      IN cover_hide(r1, item, ptr + 1, pend)

\* the value cover returns: option, or n_opts when a hide was aborted
cover_result(r, option) ==
    [option |-> IF r.status THEN option ELSE n_opts, m |-> r.m]

\* C6 and C7: main cover routine
cover(m, node, item) ==
    cover_result(
        cover_hide(
            [status |-> TRUE,
             m |-> cover_deactivate(
                     [m EXCEPT !.matrix_old_active_items_len = m.matrix_active_items_len],
                     item, options_ptr[options_j(node)], options_ptr[options_j(node) + 1])],
            item, options_ptr[options_j(node)], options_ptr[options_j(node) + 1]),
        options_j(node))

\* C5: Save the current state (sizes) for backtracking
save_state(m) ==
    [ matrix_size |-> m.matrix_size,
      matrix_active_items_len |-> m.matrix_active_items_len,
      item_colorings |-> m.item_colorings ]

\* null state used as placeholder (algorithm_z)
null_state ==
    [ matrix_size |-> <<>>, matrix_active_items_len |-> 1, item_colorings |-> <<>> ]

\* undo that restores the length of the active list and not the sizes
undo_length_only(m, state) ==
    [m EXCEPT !.matrix_active_items_len = state.matrix_active_items_len,
              !.item_colorings = state.item_colorings]

\* Restore a previous state of the matrix
undo(m, state) ==
    [m EXCEPT !.matrix_size = state.matrix_size,
              !.matrix_active_items_len = state.matrix_active_items_len,
              !.item_colorings = state.item_colorings]

(***************************************************************************)
(* C2: the choice of the next item.  Each returns <<item, length>>; item   *)
(* is n_items when the search treats the state as solved.                  *)
(***************************************************************************)
\* the loop of the MRV choice over matrix_active_items[k..len-1]
RECURSIVE mrv_scan(_, _, _, _)
mrv_scan(m, k, chosen_item, chosen_length) ==
    IF k >= m.matrix_active_items_len THEN <<chosen_item, chosen_length>>
    ELSE
      LET item == m.matrix_active_items[k]
      IN IF item < n_primary_items /\ m.matrix_size[item] < chosen_length
         THEN IF m.matrix_size[item] = 1
              THEN <<item, 1>>
              ELSE mrv_scan(m, k + 1, item, m.matrix_size[item])
         ELSE mrv_scan(m, k + 1, chosen_item, chosen_length)

\* choose_mrv that takes the first primary item of the active list
choose_first_active(m) ==
    LET ks == {k \in 0..(m.matrix_active_items_len - 1) :
                  m.matrix_active_items[k] < n_primary_items}
    IN IF ks = {} THEN <<n_items, n_data>>
       ELSE <<m.matrix_active_items[CHOOSE k \in ks : \A k2 \in ks : k <= k2],
              m.matrix_size[m.matrix_active_items[CHOOSE k \in ks : \A k2 \in ks : k <= k2]]>>

\* Using the minimum remaining value (MRV) heuristic
choose_mrv(m) == mrv_scan(m, 0, n_items, n_data)

\* the loop of the leftmost choice over the items item..n_primary_items-1
RECURSIVE leftmost_scan(_, _)
leftmost_scan(m, item) ==
    IF item >= n_primary_items THEN <<n_items, n_data>>
    ELSE IF IsActive(m, item, m.matrix_active_items_len)
         THEN <<item, m.matrix_size[item]>>
         ELSE leftmost_scan(m, item + 1)

\* choose_leftmost that scans the items from the highest id down
RECURSIVE rightmost_scan(_, _)
rightmost_scan(m, item) ==
    IF item < 0 THEN <<n_items, n_data>>
    ELSE IF IsActive(m, item, m.matrix_active_items_len)
         THEN <<item, m.matrix_size[item]>>
         ELSE rightmost_scan(m, item - 1)

choose_rightmost(m) == rightmost_scan(m, n_primary_items - 1)

\* Using the item with smallest index
choose_leftmost(m) == leftmost_scan(m, 0)

\* algorithm_c always uses MRV; algorithm_z uses choose_heuristic
choose(m) ==
    IF m.algorithm = "algorithm_z" /\ choose_heuristic = "leftmost"
    THEN choose_leftmost(m)
    ELSE choose_mrv(m)

\* C3, C4: deactivate the chosen item and hide its options
\* (hide with initial set never aborts)
expand(m, item) ==
    LET m1 == deactivate_item(m, item)
        m2 == [m1 EXCEPT !.matrix_old_active_items_len = m1.matrix_active_items_len]
    IN hide(m2, item, 0, TRUE).m

(***************************************************************************)
(* Stack helpers (python lists).                                           *)
(***************************************************************************)
Top(s) == s[Len(s)]

Pop(s) == SubSeq(s, 1, Len(s) - 1)

SetTop(s, x) == [s EXCEPT ![Len(s)] = x]

\* the generator is inside its `while node_stack` loop
InLoop(m) == m.raised = "none" /\ m.node_stack # <<>>

Running == InLoop(Frame)

\* the generator has returned or raised
Finished == ~Running

(***************************************************************************)
(* algorithm_c: one iteration of the main loop.                            *)
(***************************************************************************)
\* C10: backtracking, the branch list on top of node_stack is empty
loop_backtrack_c(m) ==
    [m EXCEPT !.node_stack = Pop(@),
              !.state_stack = Pop(@),
              !.item_stack = Pop(@),
              !.need_to_undo = TRUE,
              !.solution = IF @ # <<>> THEN Pop(@) ELSE @]

\* undo_if_needed that clears the flag and restores nothing
undo_skipped(m) == [m EXCEPT !.need_to_undo = FALSE]

\* C11: return to the state saved for the frame on top, if a branch was left
undo_if_needed(m) ==
    IF m.need_to_undo
    THEN [undo(m, Top(m.state_stack)) EXCEPT !.need_to_undo = FALSE]
    ELSE m

\* node_stack[-1].pop()
pop_node(m) == [m EXCEPT !.node_stack = SetTop(@, Pop(Top(@)))]

\* C6, C7: take the last node of the branch list on top and cover with it;
\* the root node n_data covers nothing and gives the option n_opts + 1
cover_node(m) ==
    IF Top(Top(m.node_stack)) < n_data
    THEN cover(pop_node(m), Top(Top(m.node_stack)), Top(m.item_stack))
    ELSE [option |-> n_opts + 1, m |-> pop_node(m)]

\* include option in partial solution
include_option(c) ==
    IF c.option < n_opts THEN [c.m EXCEPT !.solution = Append(@, c.option)] ELSE c.m

\* C5: push the frame of the chosen item
push_frame_c(m, item) ==
    [m EXCEPT !.state_stack = Append(@, save_state(m)),
              !.node_stack = Append(@, active_options(m, item))]

\* found a solution: yield list(solution), then solution.pop()
yield_solution(m) ==
    IF m.solution = <<>>
    THEN [m EXCEPT !.yielded = Append(@, m.solution), !.raised = "IndexError"]
    ELSE [m EXCEPT !.yielded = Append(@, m.solution),
                   !.solution = Pop(@),
                   !.need_to_undo = TRUE]

\* C2..C5: the chosen item decides between a solution and a new frame
branch_on_item_c(m, item) ==
    IF item = n_items
    THEN yield_solution(m)
    ELSE push_frame_c(expand([m EXCEPT !.item_stack = Append(@, item)], item), item)

\* the part of the branch after the cover
after_cover_c(c) ==
    IF c.option = n_opts
    THEN \* case where cover failed
         [c.m EXCEPT !.need_to_undo = TRUE]
    ELSE branch_on_item_c(include_option(c), choose(include_option(c))[1])

\* C11, C6, C7, C2..C5: try the next node of the branch list on top
loop_branch_c(m) == after_cover_c(cover_node(undo_if_needed(m)))

loop_c(m) ==
    IF Len(Top(m.node_stack)) = 0 THEN loop_backtrack_c(m) ELSE loop_branch_c(m)

\* the generator run to its end
RECURSIVE run_c(_)
run_c(m) == IF InLoop(m) THEN run_c(loop_c(m)) ELSE m

(***************************************************************************)
(* algorithm_z: the signature of a state, and one iteration of the main    *)
(* loop.  The signature is modelled by the set of bits set in sig_array;   *)
(* the source hashes the bytes of sig_array, and the hash is taken to be   *)
(* free of collisions.                                                     *)
(***************************************************************************)
signature(m, ma_len) ==
    LET act == {m.matrix_active_items[k] : k \in 0..(ma_len - 1)}
    IN act \cup { n_items + (n_colors + 1) * (s - n_primary_items)
                    + m.item_colorings[s - n_primary_items] :
                  s \in {t \in act : t >= n_primary_items} }

\* cache_insert that stores no id 0
cache_insert_nonzero(cache, memo, hi) ==
    IF hi = 0 THEN cache
    ELSE [k \in DOMAIN cache \cup {memo} |-> IF k = memo THEN hi ELSE cache[k]]

\* memo_cache[memo] = hi
cache_insert(cache, memo, hi) ==
    [k \in DOMAIN cache \cup {memo} |-> IF k = memo THEN hi ELSE cache[k]]

\* emits_node without the test of hi
emits_always(hi) == hi >= 0

\* zero-suppression: a node is emitted only below an accepting leaf
emits_node(hi) == hi > 0

\* next_zdd_index that yields before it increments
stale_zdd_index(m) == m.zdd_index

\* next_zdd_index that allocates every other id
skipped_zdd_index(m) == m.zdd_index + 2

\* the id of the node that is emitted next
next_zdd_index(m) == m.zdd_index + 1

\* zdd_node with the two children exchanged
zdd_node_swapped(id, s, lo, hi) == <<id, s, hi, lo>>

\* the ZDD node that is yielded
zdd_node(id, s, lo, hi) == <<id, s, lo, hi>>

\* the ZDD part of C10: emit the node of the option s that is taken back
emit_z(m, s) ==
    IF m.zdd_stack = <<>> THEN [m EXCEPT !.raised = "IndexError"]
    ELSE
      LET hi == Top(m.zdd_stack)
          m1 == [m EXCEPT !.zdd_stack = Pop(@)]
      IN IF emits_node(hi) /\ m1.zdd_stack = <<>>
         THEN [m1 EXCEPT !.zdd_index = next_zdd_index(m1), !.raised = "IndexError"]
         ELSE
           LET lo == Top(m1.zdd_stack)
               m2 == IF emits_node(hi)
                     THEN [m1 EXCEPT !.zdd_index = next_zdd_index(m1),
                                     !.yielded = Append(@, zdd_node(next_zdd_index(m1), s, lo, hi)),
                                     !.zdd_stack = SetTop(@, next_zdd_index(m1))]
                     ELSE m1
           IN IF ~use_memo_cache THEN m2
              ELSE IF m2.memo_stack = <<>> THEN [m2 EXCEPT !.raised = "IndexError"]
              ELSE LET memo == Top(m2.memo_stack)
                   IN [m2 EXCEPT !.memo_stack = Pop(@),
                                 !.memo_cache = IF memo \notin DOMAIN @
                                                THEN cache_insert(@, memo, hi)
                                                ELSE @]

\* C10: backtracking
loop_backtrack_z(m) ==
    LET m1 == [m EXCEPT !.node_stack = Pop(@),
                        !.state_stack = Pop(@),
                        !.item_stack = Pop(@),
                        !.need_to_undo = TRUE]
    IN IF m1.solution = <<>> THEN m1
       ELSE emit_z([m1 EXCEPT !.solution = Pop(@)], Top(m1.solution))

\* push the leaf frame of a cache hit or of a solution, holding ZDD id `id`
push_leaf(m, id, to_memo, item) ==
    [m EXCEPT !.zdd_stack = Append(@, id),
              !.node_stack = Append(@, <<>>),
              !.state_stack = Append(@, null_state),
              !.memo_stack = IF use_memo_cache THEN Append(@, to_memo) ELSE @,
              !.item_stack = Append(@, item)]

\* push_frame_z that takes a column of two nodes for a forced move as well
push_frame_z_forced_two(m, item, length) ==
    [m EXCEPT !.state_stack = Append(@, IF length <= 2 THEN null_state
                                        ELSE save_state(m)),
              !.node_stack = Append(@, active_options(m, item))]

\* C3..C5: push the frame of the chosen item; forced moves are not trailed
push_frame_z(m, item, length) ==
    [m EXCEPT !.state_stack = Append(@, IF length = 1 THEN null_state
                                        ELSE save_state(m)),
              !.node_stack = Append(@, active_options(m, item))]

\* the stacks when an item is chosen: zdd_stack.append(0), memo_stack, item_stack
push_choice(m, to_memo, item) ==
    [m EXCEPT !.zdd_stack = Append(@, 0),
              !.memo_stack = IF use_memo_cache THEN Append(@, to_memo) ELSE @,
              !.item_stack = Append(@, item)]

\* C2..C5: ch is the pair choose returned
branch_on_item_z(m, to_memo, ch) ==
    IF ch[1] = n_items
    THEN \* We have a solution: reached the true node
         push_leaf(m, 1, to_memo, ch[1])
    ELSE push_frame_z(expand(push_choice(m, to_memo, ch[1]), ch[1]), ch[1], ch[2])

\* lookup_or_choose that never looks into the memo cache
choose_without_lookup(m, sig) == branch_on_item_z(m, sig, choose(m))

\* the memo cache decides between a cached node and a choice
lookup_or_choose(m, to_memo) ==
    IF use_memo_cache /\ to_memo \in DOMAIN m.memo_cache
    THEN \* cache hit
         push_leaf(m, m.memo_cache[to_memo], to_memo, n_data)
    ELSE branch_on_item_z(m, to_memo, choose(m))

\* the part of the branch after the option is included
after_option_z(m) == lookup_or_choose(m, signature(m, m.matrix_active_items_len))

\* the part of the branch after the cover
after_cover_z(c) ==
    IF c.option = n_opts
    THEN \* case where cover failed
         [c.m EXCEPT !.need_to_undo = TRUE]
    ELSE after_option_z(include_option(c))

\* C11, C6, C7, then a memo hit, a solution leaf or C2..C5
loop_branch_z(m) ==
    IF m.need_to_undo /\ Top(m.state_stack) = null_state
    THEN \* undo of the placeholder: the slice assignment fails
         [m EXCEPT !.raised = "ValueError"]
    ELSE after_cover_z(cover_node(undo_if_needed(m)))

loop_z(m) ==
    IF Len(Top(m.node_stack)) = 0 THEN loop_backtrack_z(m) ELSE loop_branch_z(m)

(***************************************************************************)
(* The state after C1 and the set-up of the stacks.                        *)
(* matrix_old_active_items_len is np.empty and is never assigned before    *)
(* the loop (the source assigns matrix_active_items_len twice instead):    *)
(* it starts with an arbitrary value, `old`.                               *)
(***************************************************************************)
InitialFrame(p, alg, memo, old) ==
    LET colorings == IF alg = "algorithm_z"
                     THEN [y \in 0..(p.n_secondary_items - 1) |-> 0]
                     ELSE <<>>
        m == [ algorithm |-> alg,
               matrix_size |-> InitialSize(p.options, p.n_items),
               matrix_set |-> InitialSet(p.options),
               matrix_loc |-> InitialLoc(p.options),
               matrix_active_items |-> [i \in 0..(p.n_items - 1) |-> i],
               matrix_active_items_sparse |-> [i \in 0..(p.n_items - 1) |-> i],
               matrix_active_items_len |-> p.n_items,
               matrix_old_active_items_len |-> old,
               item_colorings |-> colorings,
               solution |-> <<>>,
               node_stack |-> << <<p.options_ptr[Cardinality(DOMAIN p.options_ptr) - 1]>> >>,
               item_stack |-> <<p.n_items>>,
               state_stack |-> <<>>,
               need_to_undo |-> FALSE,
               zdd_stack |-> <<>>,
               zdd_index |-> 1,
               memo_stack |-> <<>>,
               memo_cache |-> IF memo THEN [k \in {{}} |-> 1] ELSE <<>>,
               yielded |-> <<>>,
               raised |-> "none" ]
    IN [m EXCEPT !.state_stack = <<save_state(m)>>]

Modes ==
    {[algorithm |-> "algorithm_c", use_memo_cache |-> FALSE, choose_heuristic |-> "mrv"]}
    \cup [algorithm : {"algorithm_z"}, use_memo_cache : BOOLEAN,
          choose_heuristic : {"mrv", "leftmost"}]

\* the arguments of every run, with the state after the set-up
Runs ==
    { [ p |-> p, mode |-> mode,
        m |-> InitialFrame(p, mode.algorithm, mode.use_memo_cache, old) ] :
      p \in EncodedProblems, mode \in Modes, old \in {0, MaxPrimary + MaxSecondary} }

\* the generator of the run is created and has not been pulled
Created(run) ==
      LET p == run.p
          mode == run.mode
          m == run.m
      IN
      /\ options = p.options
      /\ options_ptr = p.options_ptr
      /\ colors = p.colors
      /\ n_items = p.n_items
      /\ n_secondary_items = p.n_secondary_items
      /\ algorithm = mode.algorithm
      /\ use_memo_cache = mode.use_memo_cache
      /\ choose_heuristic = mode.choose_heuristic
      /\ matrix_size = m.matrix_size
      /\ matrix_set = m.matrix_set
      /\ matrix_loc = m.matrix_loc
      /\ matrix_active_items = m.matrix_active_items
      /\ matrix_active_items_sparse = m.matrix_active_items_sparse
      /\ matrix_active_items_len = m.matrix_active_items_len
      /\ matrix_old_active_items_len = m.matrix_old_active_items_len
      /\ item_colorings = m.item_colorings
      /\ solution = m.solution
      /\ node_stack = m.node_stack
      /\ item_stack = m.item_stack
      /\ state_stack = m.state_stack
      /\ need_to_undo = m.need_to_undo
      /\ zdd_stack = m.zdd_stack
      /\ zdd_index = m.zdd_index
      /\ memo_stack = m.memo_stack
      /\ memo_cache = m.memo_cache
      /\ yielded = m.yielded
      /\ raised = m.raised

\* no caller holds further handles, and no call of covers is modelled
NoCallers == handles = <<>> /\ encoder = [stage |-> "none"]

Init == \E run \in Runs : Created(run) /\ NoCallers

(***************************************************************************)
(* The actions: one iteration of the loop of the running generator.        *)
(***************************************************************************)
backtrack_c ==
    /\ algorithm = "algorithm_c"
    /\ Running
    /\ Len(Top(node_stack)) = 0
    /\ Store(loop_backtrack_c(Frame))
    /\ UNCHANGED <<problem, callers>>

step_c ==
    /\ algorithm = "algorithm_c"
    /\ Running
    /\ Len(Top(node_stack)) # 0
    /\ Store(loop_branch_c(Frame))
    /\ UNCHANGED <<problem, callers>>

backtrack_z ==
    /\ algorithm = "algorithm_z"
    /\ Running
    /\ Len(Top(node_stack)) = 0
    /\ Store(loop_backtrack_z(Frame))
    /\ UNCHANGED <<problem, callers>>

step_z ==
    /\ algorithm = "algorithm_z"
    /\ Running
    /\ Len(Top(node_stack)) # 0
    /\ Store(loop_branch_z(Frame))
    /\ UNCHANGED <<problem, callers>>

Next == backtrack_c \/ step_c \/ backtrack_z \/ step_z

Spec == Init /\ [][Next]_vars

(***************************************************************************)
(* Vocabulary of the properties.                                           *)
(***************************************************************************)
Range(s) == {s[k] : k \in 1..Len(s)}

PrimaryItems == 0..(n_primary_items - 1)

SecondaryItems == n_primary_items..(n_items - 1)

\* the items of option j
OptionItems(j) == {options[k] : k \in ptr_range(j)}

\* the color item i carries in option j, which contains i
ColorIn(j, i) == colors[CHOOSE k \in ptr_range(j) : options[k] = i]

\* the positions of the list of options S whose option contains item i
Occurrences(S, i) == {n \in 1..Len(S) : i \in OptionItems(S[n])}

\* the colors item i carries across the list of options S
ColorsAcross(S, i) == {ColorIn(S[n], i) : n \in Occurrences(S, i)}

\* the problem of the current run, as the record of its arrays
Problem ==
    [ options |-> options, colors |-> colors, options_ptr |-> options_ptr,
      n_items |-> n_items, n_secondary_items |-> n_secondary_items ]

\* some option of the problem contains item i with color c
HasNode(i, c) == \E k \in DOMAIN options : options[k] = i /\ colors[k] = c

(***************************************************************************)
(* C1.  Every solution yielded by algorithm_c contains each primary item   *)
(* in exactly one of its options.                                          *)
(* Violated: on a problem all of whose nodes belong to one primary item    *)
(* (covers([["a"]])), choose compares matrix_size[item] < n_data with the  *)
(* sentinel n_data, finds no item and the empty list is yielded.           *)
(***************************************************************************)
C1_PrimaryCoveredExactlyOnce ==
    algorithm = "algorithm_c" =>
        \A n \in 1..Len(yielded) : \A i \in PrimaryItems :
            Cardinality(Occurrences(yielded[n], i)) = 1

(***************************************************************************)
(* C2.  In every solution yielded by algorithm_c each secondary item s is  *)
(* consistently colored: at most one option of the solution contains s,    *)
(* or all its options that contain s carry the same nonzero color for s.   *)
(***************************************************************************)
C2_ConsistentlyColored ==
    algorithm = "algorithm_c" =>
        \A n \in 1..Len(yielded) : \A s \in SecondaryItems :
            LET S == yielded[n]
            IN \/ Cardinality(Occurrences(S, s)) <= 1
               \/ \E c \in 1..MaxColor :
                    \A k \in Occurrences(S, s) : ColorIn(S[k], s) = c

\* a solution is yielded in which two options share a secondary item, while
\* the problem also holds that item in another color
C2_Witness ==
    /\ algorithm = "algorithm_c"
    /\ \E n \in 1..Len(yielded) : \E s \in SecondaryItems :
          /\ Cardinality(Occurrences(yielded[n], s)) >= 2
          /\ \E c \in 0..MaxColor :
                HasNode(s, c) /\ c \notin ColorsAcross(yielded[n], s)

(***************************************************************************)
(* C3 as stated.  In every yielded solution at most one option contains a  *)
(* given secondary item s, and s carries at most one color.                *)
(* Violated: two options that agree on a nonzero color of s are both in    *)
(* the solution (test_simple_colored expects {1, 3}, which share x:A).     *)
(***************************************************************************)
C3_AtMostOneOption ==
    algorithm = "algorithm_c" =>
        \A n \in 1..Len(yielded) : \A s \in SecondaryItems :
            /\ Cardinality(Occurrences(yielded[n], s)) <= 1
            /\ Cardinality(ColorsAcross(yielded[n], s)) <= 1

(***************************************************************************)
(* C3 as amended.  In every yielded solution a secondary item s carries at *)
(* most one color, and more than one option of the solution contains s     *)
(* only when that color is nonzero.                                        *)
(***************************************************************************)
C3_OneColorPerItem ==
    algorithm = "algorithm_c" =>
        \A n \in 1..Len(yielded) : \A s \in SecondaryItems :
            /\ Cardinality(ColorsAcross(yielded[n], s)) <= 1
            /\ Cardinality(Occurrences(yielded[n], s)) > 1
                  => 0 \notin ColorsAcross(yielded[n], s)

\* a solution is yielded that holds a secondary item exactly once and
\* uncolored, while other options of the problem contain the item too
C3_Witness ==
    /\ algorithm = "algorithm_c"
    /\ \E n \in 1..Len(yielded) : \E s \in SecondaryItems :
          /\ Cardinality(Occurrences(yielded[n], s)) = 1
          /\ ColorsAcross(yielded[n], s) = {0}
          /\ \E j \in 0..(n_opts - 1) :
                j \notin Range(yielded[n]) /\ s \in OptionItems(j)

(***************************************************************************)
(* C4.  Completeness: when algorithm_c has finished, the set of solutions  *)
(* it yielded is the set of all subcollections of options that cover each  *)
(* primary item exactly once and each secondary item at most once or       *)
(* in one color only.                                                      *)
(* Violated: see C1; on covers([["a"]]) the only exact cover {0} is not    *)
(* yielded, the empty list is, and solution.pop() raises IndexError.       *)
(***************************************************************************)
IsExactCover(T) ==
    /\ \A i \in PrimaryItems : Cardinality({j \in T : i \in OptionItems(j)}) = 1
    /\ \A s \in SecondaryItems :
          LET with == {j \in T : s \in OptionItems(j)}
          IN \/ Cardinality(with) <= 1
             \/ \E c \in 1..MaxColor : \A j \in with : ColorIn(j, s) = c

ExactCovers == {T \in SUBSET (0..(n_opts - 1)) : IsExactCover(T)}

C4_Complete ==
    (algorithm = "algorithm_c" /\ Finished) =>
        {Range(yielded[n]) : n \in 1..Len(yielded)} = ExactCovers

RECURSIVE NodeFamily(_, _)
NodeFamily(stream, id) ==
    IF id = 0 THEN {}
    ELSE IF id = 1 THEN {{}}
    ELSE LET z == stream[id - 1]
         IN NodeFamily(stream, z[3])
              \cup {S \cup {z[2]} : S \in NodeFamily(stream, z[4])}

ZddFamily(stream) ==
    IF stream = <<>> THEN {} ELSE NodeFamily(stream, Len(stream) + 1)

\* the solutions algorithm_c yields on the problem of the current run
CoversOfProblem ==
    LET m == run_c(InitialFrame(Problem, "algorithm_c", FALSE, 0))
    IN {Range(m.yielded[n]) : n \in 1..Len(m.yielded)}

RunsZ == algorithm = "algorithm_z"

(***************************************************************************)
(* C6.  When algorithm_z has finished, the family of option sets its       *)
(* stream denotes equals the set of solutions algorithm_c yields on the    *)
(* same problem, for both heuristics and both settings of use_memo_cache.  *)
(* Violated: with use_memo_cache the signature omits the coloring of the   *)
(* secondary items a cover has purified and deactivated, so two states     *)
(* that differ in it share a cache entry.  Also violated on the problems   *)
(* of C1, where algorithm_c yields the empty list.                         *)
(***************************************************************************)
C6_ZddDenotesCovers ==
    (RunsZ /\ Finished) => ZddFamily(yielded) = CoversOfProblem

(***************************************************************************)
(* C7.  For every record (id, var, lo, hi) emitted by algorithm_z, lo < id *)
(* and hi < id, and each of lo and hi is 0, 1 or the id of a record        *)
(* emitted earlier in the stream.                                          *)
(***************************************************************************)
C7_ChildrenEmittedEarlier ==
    RunsZ =>
        \A k \in 1..Len(yielded) :
            \A c \in {yielded[k][3], yielded[k][4]} :
                /\ c < yielded[k][1]
                /\ c \in {0, 1} \/ \E e \in 1..(k - 1) : yielded[e][1] = c

\* a record has been emitted both of whose children are earlier records
C7_Witness ==
    /\ RunsZ
    /\ \E k \in 1..Len(yielded) :
          /\ yielded[k][3] > 1
          /\ yielded[k][4] > 1
          /\ yielded[k][3] # yielded[k][4]

(***************************************************************************)
(* C8.  Zero-suppression: on backtrack from a frame whose option is taken  *)
(* back, algorithm_z emits a record exactly when the id accumulated for    *)
(* the frame (hi, the top of zdd_stack) is nonzero, the new id then        *)
(* replaces the accumulated id of the enclosing frame, and no emitted      *)
(* record has hi = 0.                                                      *)
(***************************************************************************)
NoZeroHi == \A k \in 1..Len(yielded) : yielded[k][4] # 0

EmitsIffHiNonzero ==
    (backtrack_z /\ solution # <<>>) =>
        /\ raised' = "none"
        /\ IF Top(zdd_stack) > 0
           THEN /\ Len(yielded') = Len(yielded) + 1
                /\ Top(yielded')[4] = Top(zdd_stack)
                /\ Top(yielded')[2] = Top(solution)
                /\ Len(zdd_stack') = Len(zdd_stack) - 1
                /\ Top(zdd_stack') = Top(yielded')[1]
           ELSE /\ yielded' = yielded
                /\ zdd_stack' = Pop(zdd_stack)

C8_ZeroSuppression == [](RunsZ => NoZeroHi) /\ [][EmitsIffHiNonzero]_vars

\* a backtrack has emitted a record after another backtrack, from a frame
\* without accepting leaf, emitted none
C8_Witness ==
    /\ RunsZ
    /\ yielded # <<>>
    /\ \E memo \in DOMAIN memo_cache : memo_cache[memo] = 0

(***************************************************************************)
(* C9 as stated.  No two records of the stream of one run of algorithm_z   *)
(* have the same triple (var, lo, hi).                                     *)
(* Violated: records are emitted without a unique table; on the options    *)
(* [a], [b], [a, x] the stream holds (2, 1, 0, 1) and (4, 1, 0, 1).        *)
(***************************************************************************)
Triple(z) == <<z[2], z[3], z[4]>>

C9_NoSharedTriple ==
    RunsZ =>
        \A a, b \in 1..Len(yielded) :
            a # b => Triple(yielded[a]) # Triple(yielded[b])

(***************************************************************************)
(* C9 as amended.  No two records of the stream of one run of algorithm_z  *)
(* that have lo # 0 have the same triple (var, lo, hi); records with       *)
(* lo = 0 may repeat a triple.                                             *)
(***************************************************************************)
C9_NoSharedTripleWithLo ==
    RunsZ =>
        \A a, b \in 1..Len(yielded) :
            (a # b /\ yielded[a][3] # 0 /\ yielded[b][3] # 0)
                => Triple(yielded[a]) # Triple(yielded[b])

\* two records with lo # 0 have the same var and the same hi
C9_Witness ==
    /\ RunsZ
    /\ \E a, b \in 1..Len(yielded) :
          /\ a # b
          /\ yielded[a][3] # 0
          /\ yielded[b][3] # 0
          /\ yielded[a][2] = yielded[b][2]
          /\ yielded[a][4] = yielded[b][4]

(***************************************************************************)
(* C10.  The ids of the records emitted by algorithm_z are consecutive     *)
(* integers starting at 2 in emission order: the k-th record has id k + 1, *)
(* and the ids 0 and 1 are never emitted.                                  *)
(***************************************************************************)
C10_ConsecutiveIds ==
    RunsZ =>
        /\ \A k \in 1..Len(yielded) : yielded[k][1] = k + 1
        /\ zdd_index = Len(yielded) + 1

\* four records have been emitted, and the frame on top of zdd_stack has
\* accumulated no id yet
C10_Witness ==
    /\ RunsZ
    /\ Len(yielded) >= 4
    /\ zdd_stack # <<>>
    /\ Top(zdd_stack) = 0

(***************************************************************************)
(* C11.  The search loop ends with node_stack empty, the lazy sequence     *)
(* then ends, and a problem without exact cover yields nothing.            *)
(* Stated on finished runs: a generator that has left its loop has left it *)
(* because node_stack is empty and has raised nothing.                     *)
(* Violated: on the problems of C1 algorithm_c leaves its loop through the *)
(* IndexError of solution.pop(), with node_stack not empty.                *)
(***************************************************************************)
C11_EndsWithEmptyStack ==
    /\ Finished => (node_stack = <<>> /\ raised = "none")
    /\ (algorithm = "algorithm_c" /\ ExactCovers = {}) => yielded = <<>>

(***************************************************************************)
(* verify_exact_cover on the encoded problem of the run.  A token of an    *)
(* option is the pair of the item and the color of a node (color 0: the    *)
(* token has no ':' suffix); the tokens of the primary list are the        *)
(* primary items without suffix.                                           *)
(***************************************************************************)
\* [o for s in solution for o in options[s]], as nodes
solution_nodes(sol) ==
    Flatten([n \in 1..Len(sol) |-> SetToSeq(ptr_range(sol[n]))])

\* o in primary
is_primary_token(k) == options[k] < n_primary_items /\ colors[k] = 0

\* o.split(":")[0] in secondary
is_secondary_token(k) == options[k] >= n_primary_items

\* the loop that counts the occurrences of each secondary item; st holds
\* counts, colors and whether `assert False` was reached
RECURSIVE count_secondary(_, _, _)
count_secondary(nodes, n, st) ==
    IF n > Len(nodes) \/ ~st.ok THEN st
    ELSE IF ~is_secondary_token(nodes[n]) THEN count_secondary(nodes, n + 1, st)
    ELSE
      LET itm == options[nodes[n]]
          col == colors[nodes[n]]
      IN IF col # 0
         THEN IF st.colors[itm] = 0
              THEN count_secondary(nodes, n + 1,
                       [st EXCEPT !.colors[itm] = col, !.counts[itm] = @ + 1])
              ELSE IF st.colors[itm] # col
              THEN [st EXCEPT !.ok = FALSE]  \* can't color twice
              ELSE count_secondary(nodes, n + 1, st)
         ELSE count_secondary(nodes, n + 1, [st EXCEPT !.counts[itm] = @ + 1])

\* the verdict on the counted occurrences: each only covered once
secondary_verdict(st) == st.ok /\ \A s \in DOMAIN st.counts : st.counts[s] <= 1

\* the checks of the primary items on the nodes of the solution
primary_verdict(nodes) ==
    LET primary_options == {n \in 1..Len(nodes) : is_primary_token(nodes[n])}
        primary_cover   == {options[nodes[n]] : n \in primary_options}
    IN /\ Cardinality(primary_options) = Cardinality(primary_cover)  \* is_exact
       /\ primary_cover = PrimaryItems                               \* is_cover

\* TRUE when verify_exact_cover returns, FALSE when it raises AssertionError
verify_nodes(nodes) ==
    /\ primary_verdict(nodes)
    /\ secondary_verdict(
           count_secondary(nodes, 1,
               [counts |-> [s \in SecondaryItems |-> 0],
                colors |-> [s \in SecondaryItems |-> 0],
                ok |-> TRUE]))

verify_exact_cover(sol) == verify_nodes(solution_nodes(sol))

(***************************************************************************)
(* C12.  verify_exact_cover accepts every solution yielded by covers.      *)
(* Violated: on the problems of C1 the yielded list [] is rejected by      *)
(* `assert is_cover`.                                                      *)
(***************************************************************************)
C12_VerifyAcceptsYielded ==
    algorithm = "algorithm_c" =>
        \A n \in 1..Len(yielded) : verify_exact_cover(yielded[n])

(***************************************************************************)
(* C13.  For every yielded solution S, verify_exact_cover rejects every    *)
(* list obtained from S by dropping one of its options and every list      *)
(* obtained from S by adding one option of the problem that is not in S.   *)
(* Violated: on the problems of C1 the yielded list is [], and [] with     *)
(* option 0 added is an exact cover, which is accepted.                    *)
(***************************************************************************)
\* the list sol without its n-th entry
DropAt(sol, n) == SubSeq(sol, 1, n - 1) \o SubSeq(sol, n + 1, Len(sol))

C13_VerifyRejectsNeighbours ==
    algorithm = "algorithm_c" =>
        \A n \in 1..Len(yielded) :
            /\ \A d \in 1..Len(yielded[n]) :
                  ~verify_exact_cover(DropAt(yielded[n], d))
            /\ \A j \in 0..(n_opts - 1) :
                  j \notin Range(yielded[n])
                      => ~verify_exact_cover(Append(yielded[n], j))

(***************************************************************************)
(* Two search handles on the same encoded arrays.  Each call of            *)
(* algorithm_c runs C1 on its arguments and so builds the substrate and    *)
(* the stacks of its own generator; a pull (next) runs the generator up to *)
(* its next yield or to its end.  The pop that follows a yield is part of  *)
(* the pull that yielded.  matrix_old_active_items_len is uninitialised in *)
(* each handle.                                                            *)
(***************************************************************************)
\* next(handle): iterate the loop until a value is yielded or the loop is left
RECURSIVE next_c(_)
RECURSIVE after_iteration(_, _)
next_c(m) == IF InLoop(m) THEN after_iteration(m, loop_c(m)) ELSE m

after_iteration(m, m1) ==
    IF Len(m1.yielded) > Len(m.yielded) THEN m1 ELSE next_c(m1)

\* the handles after a pull of h, were the substrate one set of arrays
\* shared by the handles
after_pull_shared(hs, h) ==
    [k \in DOMAIN hs |->
        IF k = h THEN next_c(hs[h])
        ELSE [hs[k] EXCEPT
                !.matrix_size = next_c(hs[h]).matrix_size,
                !.matrix_set = next_c(hs[h]).matrix_set,
                !.matrix_loc = next_c(hs[h]).matrix_loc,
                !.matrix_active_items = next_c(hs[h]).matrix_active_items,
                !.matrix_active_items_sparse = next_c(hs[h]).matrix_active_items_sparse,
                !.matrix_active_items_len = next_c(hs[h]).matrix_active_items_len]]

\* the handles after a pull of h: only the generator pulled has moved
after_pull(hs, h) == [hs EXCEPT ![h] = next_c(hs[h])]

\* the handles a caller gets from two calls on the arrays p
TwoHandles(p, old1, old2) ==
    << InitialFrame(p, "algorithm_c", FALSE, old1),
       InitialFrame(p, "algorithm_c", FALSE, old2) >>

InitHandles ==
    \E p \in EncodedProblems :
    \E old1, old2 \in {0, MaxPrimary + MaxSecondary} :
       /\ Created([p |-> p,
                   mode |-> [algorithm |-> "algorithm_c", use_memo_cache |-> FALSE,
                             choose_heuristic |-> "mrv"],
                   m |-> InitialFrame(p, "algorithm_c", FALSE, 0)])
       /\ handles = TwoHandles(p, old1, old2)
       /\ encoder = [stage |-> "none"]

pull(h) ==
    /\ InLoop(handles[h])
    /\ handles' = after_pull(handles, h)
    /\ UNCHANGED <<problem, substrate, stacks, zdd, yielded, raised, encoder>>

pull_first == pull(1)

pull_second == pull(2)

NextHandles == pull_first \/ pull_second

SpecHandles == InitHandles /\ [][NextHandles]_vars

IsPrefix(a, b) == Len(a) <= Len(b) /\ a = SubSeq(b, 1, Len(a))

\* the generator of the problem, run alone to its end
Alone == run_c(InitialFrame(Problem, "algorithm_c", FALSE, 0))

(***************************************************************************)
(* C14.  Two handles of algorithm_c on the same encoded arrays, pulled in  *)
(* any interleaving, each yield the sequence a single handle yields when   *)
(* run alone (at every moment a prefix of it, and all of it once the       *)
(* handle has ended), and no pull writes to options, options_ptr, colors.  *)
(***************************************************************************)
HandlesYieldAlone ==
    \A h \in DOMAIN handles :
        /\ IsPrefix(handles[h].yielded, Alone.yielded)
        /\ ~InLoop(handles[h]) =>
              /\ handles[h].yielded = Alone.yielded
              /\ handles[h].raised = Alone.raised

MaxCallOpts == 2
MaxOptionLen == 2

Tokens == {<<"a", 0>>, <<"b", 0>>, <<"x", 0>>} \cup {<<"x", c>> : c \in 1..MaxColor}

SeqsUpTo(S, n) == UNION {[1..k -> S] : k \in 1..n}

None == [given |-> FALSE]

Given(list) == [given |-> TRUE, list |-> list]

Calls ==
    [ options   : SeqsUpTo(SeqsUpTo(Tokens, MaxOptionLen), MaxCallOpts),
      primary   : {None, Given(<< <<"a", 0>> >>), Given(<< <<"a", 0>>, <<"b", 0>> >>)},
      secondary : {None, Given(<< <<"x", 0>> >>)},
      colored   : BOOLEAN ]

\* x.split(":")[0]
split_name(t) == <<t[1], 0>>

\* ":" in x
has_colon(t) == t[2] # 0

\* the orders in which a set can be enumerated
Orders(S) ==
    {f \in [1..Cardinality(S) -> S] : \A a, b \in DOMAIN f : a # b => f[a] # f[b]}

\* items: the primary and secondary items as enumerated later, each the set
\* of the orders it can be enumerated in (a list that was given has one)
items(all_opts, primary, secondary, colored) ==
    IF ~primary.given /\ ~secondary.given
    THEN [primary |-> Orders(Range(all_opts)), secondary |-> {<<>>}]
    ELSE IF ~primary.given
    THEN [primary   |-> Orders(Range(all_opts) \ Range(secondary.list)),
          secondary |-> {secondary.list}]
    ELSE IF ~secondary.given
    THEN [primary   |-> {primary.list},
          secondary |-> LET diff == Range(all_opts) \ Range(primary.list)
                        IN Orders(IF colored THEN {split_name(t) : t \in diff}
                                  ELSE diff)]
    ELSE [primary |-> {primary.list}, secondary |-> {secondary.list}]

\* item_to_idx = {**primary_item_to_idx, **secondary_item_to_idx}
item_to_idx(primary, secondary) ==
    [t \in Range(primary) \cup Range(secondary) |->
        IF t \in Range(secondary)
        THEN Len(primary) + (CHOOSE k \in 1..Len(secondary) :
                                secondary[k] = t
                                /\ \A k2 \in 1..Len(secondary) : secondary[k2] = t => k2 <= k) - 1
        ELSE (CHOOSE k \in 1..Len(primary) :
                 primary[k] = t
                 /\ \A k2 \in 1..Len(primary) : primary[k2] = t => k2 <= k) - 1]

\* the key under which a token is looked up in item_to_idx
item_key(t, colored) == IF colored THEN split_name(t) ELSE t

\* color_indices, for the order col_names in which the set of colors is
\* enumerated
color_indices(all_opts, col_names) ==
    [k \in 0..(Len(all_opts) - 1) |->
        IF has_colon(all_opts[k + 1])
        THEN CHOOSE i \in 1..Len(col_names) : col_names[i] = all_opts[k + 1][2]
        ELSE 0]

\* input_as_arrays, for the orders in which the sets are enumerated
input_as_arrays(call, primary, secondary, col_names) ==
    LET all_opts == Flatten(call.options)
        idx      == item_to_idx(primary, secondary)
    IN IF \E k \in 1..Len(all_opts) : item_key(all_opts[k], call.colored) \notin DOMAIN idx
       THEN [raised |-> "KeyError"]
       ELSE [ raised  |-> "none",
              options |-> [k \in 0..(Len(all_opts) - 1) |->
                              idx[item_key(all_opts[k + 1], call.colored)]],
              colors  |-> IF call.colored THEN color_indices(all_opts, col_names)
                          ELSE [k \in 0..(Len(all_opts) - 1) |-> 0],
              options_ptr |-> [j \in 0..Len(call.options) |->
                                  SumOver([n \in 1..Len(call.options) |->
                                              Len(call.options[n])], 1..j)],
              n_items |-> Len(primary) + Len(secondary),
              n_secondary_items |-> Len(secondary) ]

(***************************************************************************)
(* covers: the body runs when the caller first asks for a solution.  It    *)
(* encodes the call and hands the arrays to algorithm_c, whose loop then   *)
(* runs as in Spec.  Before that no generator of algorithm_c exists.       *)
(***************************************************************************)
NoArrays ==
    [ options |-> <<>>, colors |-> <<>>, options_ptr |-> [j \in {0} |-> 0],
      n_items |-> 0, n_secondary_items |-> 0 ]

NotStarted ==
    [ p    |-> NoArrays,
      mode |-> [algorithm |-> "algorithm_c", use_memo_cache |-> FALSE,
                choose_heuristic |-> "mrv"],
      m    |-> [InitialFrame(NoArrays, "algorithm_c", FALSE, 0)
                   EXCEPT !.node_stack = <<>>, !.item_stack = <<>>,
                          !.state_stack = <<>>] ]

InitEncoder ==
    \E call \in Calls :
       /\ Created(NotStarted)
       /\ handles = <<>>
       /\ encoder = [stage |-> "call", call |-> call]

\* the set of color names of color_indices
col_names(all_opts) == {all_opts[k][2] : k \in {n \in 1..Len(all_opts) : has_colon(all_opts[n])}}

\* the call raised in input_as_arrays
encode_raised(r, primary, secondary) ==
    /\ raised' = r.raised
    /\ encoder' = [stage |-> "raised", call |-> encoder.call,
                   primary |-> primary, secondary |-> secondary]
    /\ UNCHANGED <<problem, substrate, stacks, zdd, yielded, handles>>

\* the arrays are handed to algorithm_c
encode_done(r, primary, secondary, old) ==
    /\ options' = r.options
    /\ options_ptr' = r.options_ptr
    /\ colors' = r.colors
    /\ n_items' = r.n_items
    /\ n_secondary_items' = r.n_secondary_items
    /\ Store(InitialFrame(r, "algorithm_c", FALSE, old))
    /\ encoder' = [stage |-> "encoded", call |-> encoder.call,
                   primary |-> primary, secondary |-> secondary]
    /\ UNCHANGED <<algorithm, use_memo_cache, choose_heuristic, handles>>

encode_with(r, primary, secondary) ==
    IF r.raised # "none"
    THEN encode_raised(r, primary, secondary)
    ELSE \E old \in {0, r.n_items} : encode_done(r, primary, secondary, old)

encode ==
    /\ encoder.stage = "call"
    /\ \E primary \in items(Flatten(encoder.call.options), encoder.call.primary,
                            encoder.call.secondary, encoder.call.colored).primary :
       \E secondary \in items(Flatten(encoder.call.options), encoder.call.primary,
                              encoder.call.secondary, encoder.call.colored).secondary :
       \E names \in Orders(col_names(Flatten(encoder.call.options))) :
          encode_with(input_as_arrays(encoder.call, primary, secondary, names),
                      primary, secondary)

NextEncoder == encode \/ backtrack_c \/ step_c

SpecEncoder == InitEncoder /\ [][NextEncoder]_vars

\* some option of the call lists the same item twice
HasDuplicateItem(call) ==
    \E j \in 1..Len(call.options) :
       \E a, b \in 1..Len(call.options[j]) :
          /\ a # b
          /\ item_key(call.options[j][a], call.colored)
                = item_key(call.options[j][b], call.colored)

\* C15: a call one of whose options lists the same item twice is rejected
\* by the encoder: it raises, no generator of algorithm_c is created from
\* the call and nothing is yielded.
C15_DuplicateRejected ==
    (encoder.stage # "call" /\ HasDuplicateItem(encoder.call))
        => (encoder.stage = "raised" /\ raised # "none" /\ yielded = <<>>)

\* the items that appear in the options of the call
ItemsOfCall(call) ==
    {item_key(t, call.colored) : t \in Range(Flatten(call.options))}

InfersPrimary(call) == ~call.primary.given /\ call.secondary.given

InfersSecondary(call) == call.primary.given /\ ~call.secondary.given

\* the inferred list holds the items of the options that are not in the
\* supplied list: item names, no 'item:color' token of a colored call
InferredIsDifference ==
    /\ InfersPrimary(encoder.call) =>
          Range(encoder.primary)
             = ItemsOfCall(encoder.call) \ Range(encoder.call.secondary.list)
    /\ InfersSecondary(encoder.call) =>
          Range(encoder.secondary)
             = ItemsOfCall(encoder.call) \ Range(encoder.call.primary.list)

\* every inferred primary item has a node
InferredPrimaryHasNode ==
    InfersPrimary(encoder.call) =>
       \A i \in 0..(Len(encoder.primary) - 1) : \E node \in DOMAIN options : options[node] = i

\* primary items have the ids 0..Pp-1 in the order of the primary list,
\* secondary items the ids Pp..P-1 in the order of the secondary list
IdsContiguous ==
    /\ n_items = Len(encoder.primary) + Len(encoder.secondary)
    /\ n_secondary_items = Len(encoder.secondary)
    /\ \A node \in DOMAIN options :
          LET key == item_key(Flatten(encoder.call.options)[node + 1], encoder.call.colored)
          IN /\ options[node] \in 0..(n_items - 1)
             /\ \A k \in 1..Len(encoder.primary) :
                   encoder.primary[k] = key => options[node] = k - 1
             /\ \A k \in 1..Len(encoder.secondary) :
                   encoder.secondary[k] = key
                      => options[node] = Len(encoder.primary) + k - 1

\* C16: when exactly one of primary and secondary is supplied, the other is
\* the set difference between the items of the options and the supplied
\* list, also in a colored call: item names only, every inferred primary
\* item with a node, and contiguous ids, primary items first.
C16_InferredByDifference ==
    (encoder.stage = "encoded"
       /\ (InfersPrimary(encoder.call) \/ InfersSecondary(encoder.call)))
    => (InferredIsDifference /\ InferredPrimaryHasNode /\ IdsContiguous)

(***************************************************************************)
(* C17.  The order in which the nodes of a branch list are tried.  The     *)
(* list of frame d is node_stack[d], its item item_stack[d]; a step tries  *)
(* one node of the list on top and takes it off the list.                  *)
(***************************************************************************)
\* the nodes that the step takes off the list of frame d
TakenOff(d) == Range(node_stack[d]) \ Range(node_stack'[d])

\* C17 as stated: the node a step tries is smaller than every node left in
\* its branch list, so each list is tried in ascending node order.
C17_TriedAscending ==
    [][\A d \in 1..Len(node_stack) :
          d <= Len(node_stack') =>
             \A n \in TakenOff(d) : \A rest \in Range(node_stack'[d]) : n < rest]_vars

\* the branch list of every frame is the column of its item from the first
\* position on, as long as the list is
ListIsColumnPrefix ==
    \A d \in 2..Len(node_stack) :
       node_stack[d] = [k \in 1..Len(node_stack[d]) |->
                           matrix_set[matrix_start_ptr(item_stack[d]) + k - 1]]

\* a step that takes a node off a list takes its last one
TakesLast ==
    \A d \in 1..Len(node_stack) :
       (d <= Len(node_stack') /\ node_stack'[d] # node_stack[d])
          => node_stack'[d] = Pop(node_stack[d])

\* C17 amended: the nodes of a branch list are tried from the last position
\* of the active prefix of the column to the first, in the order the column
\* had when its item was chosen.
C17_TriedFromLastPosition == []ListIsColumnPrefix /\ [][TakesLast]_vars

\* a node of a list was tried and covered, and a node left in the list,
\* which is tried later, is larger than it: the column was permuted before
\* its item was chosen
C17_Witness ==
    \E d \in 2..(Len(node_stack) - 1) :
       /\ node_stack[d] # <<>>
       /\ \E n \in Range(node_stack[d]) :
             n > matrix_set[matrix_start_ptr(item_stack[d]) + Len(node_stack[d])]

(***************************************************************************)
(* C18.  The sparse-set partners.                                          *)
(***************************************************************************)
\* matrix_set and matrix_loc are inverse to each other
MatrixPartners(m) ==
    /\ \A n \in DOMAIN m.matrix_loc : m.matrix_set[m.matrix_loc[n]] = n
    /\ \A p \in DOMAIN m.matrix_set : m.matrix_loc[m.matrix_set[p]] = p

\* matrix_active_items and matrix_active_items_sparse are inverse to each other
ActivePartners(m) ==
    /\ \A i \in DOMAIN m.matrix_active_items_sparse :
          m.matrix_active_items[m.matrix_active_items_sparse[i]] = i
    /\ \A k \in DOMAIN m.matrix_active_items :
          m.matrix_active_items_sparse[m.matrix_active_items[k]] = k

\* the column of every item holds the nodes of the item, each once
ColumnsPermuted(m) ==
    \A i \in 0..(n_items - 1) :
       LET column == matrix_start_ptr(i)..(matrix_start_ptr(i + 1) - 1)
       IN /\ {m.matrix_set[p] : p \in column} = {n \in DOMAIN options : options[n] = i}
          /\ \A p, q \in column : m.matrix_set[p] = m.matrix_set[q] => p = q

Partners(m) == MatrixPartners(m) /\ ActivePartners(m) /\ ColumnsPermuted(m)

\* the nodes in the active prefix of their column
ActiveNodes(m) ==
    {n \in DOMAIN options :
        m.matrix_loc[n] < matrix_start_ptr(options[n]) + m.matrix_size[options[n]]}

\* the items in the active part of matrix_active_items
ActiveItems(m) ==
    {i \in 0..(n_items - 1) : IsActive(m, i, m.matrix_active_items_len)}

\* C18: the partners are inverse to each other and every column is a
\* permutation of the nodes of its item, between the steps of the loop and
\* after every single call of remove_node on an active node and of
\* deactivate_item on an active item.
C18_SparseSetPartners ==
    /\ Partners(Frame)
    /\ \A n \in ActiveNodes(Frame) : Partners(remove_node(Frame, n))
    /\ \A i \in ActiveItems(Frame) : Partners(deactivate_item(Frame, i))

\* nodes and items were swapped: neither sparse set is in its initial order
C18_Witness ==
    /\ matrix_set # InitialSet(options)
    /\ matrix_active_items # [i \in 0..(n_items - 1) |-> i]
    /\ solution # <<>>

(***************************************************************************)
(* C19.  save_state, a cover attempt, undo.  At a save point the snapshot  *)
(* on top of state_stack was taken of the arrays as they are, and the next *)
(* step of the loop covers with the last node of the branch list on top.   *)
(***************************************************************************)
SavePoint ==
    /\ Running
    /\ ~need_to_undo
    /\ Top(node_stack) # <<>>
    /\ Top(Top(node_stack)) < n_data
    /\ Top(state_stack) = save_state(Frame)

\* the arrays after the cover attempt of the next step and the undo of the
\* snapshot on top
CoverThenUndo == undo(cover_node(Frame).m, Top(state_stack))

\* C19 as stated: after save_state, a cover attempt and undo of the
\* snapshot, all substrate arrays are identical to their values at the save.
C19_UndoRestoresArrays ==
    SavePoint =>
       /\ CoverThenUndo.matrix_size = matrix_size
       /\ CoverThenUndo.matrix_active_items_len = matrix_active_items_len
       /\ CoverThenUndo.matrix_set = matrix_set
       /\ CoverThenUndo.matrix_loc = matrix_loc
       /\ CoverThenUndo.matrix_active_items = matrix_active_items
       /\ CoverThenUndo.matrix_active_items_sparse = matrix_active_items_sparse

\* C19 amended: after save_state, a cover attempt and undo of the snapshot,
\* matrix_size and the active length are identical to their values at the
\* save, and so are the set of nodes in the active prefix of every column
\* and the set of active items; the order of the entries of matrix_set and
\* matrix_active_items, and with it matrix_loc and
\* matrix_active_items_sparse, is not restored.  In algorithm_c the snapshot
\* on top is of the current arrays whenever no undo is pending.
C19_UndoRestoresSizes ==
    /\ SavePoint =>
          /\ CoverThenUndo.matrix_size = matrix_size
          /\ CoverThenUndo.matrix_active_items_len = matrix_active_items_len
          /\ ActiveNodes(CoverThenUndo) = ActiveNodes(Frame)
          /\ ActiveItems(CoverThenUndo) = ActiveItems(Frame)
          /\ Partners(CoverThenUndo)
    /\ (algorithm = "algorithm_c" /\ Running /\ ~need_to_undo)
          => Top(state_stack) = save_state(Frame)

\* a cover attempt that failed and one that succeeded, each of which swapped
\* entries of matrix_set and of matrix_active_items that the undo leaves
\* swapped
C19_WitnessAborted ==
    /\ SavePoint
    /\ cover_node(Frame).option = n_opts
    /\ CoverThenUndo.matrix_set # matrix_set

C19_Witness ==
    /\ SavePoint
    /\ cover_node(Frame).option < n_opts
    /\ CoverThenUndo.matrix_set # matrix_set
    /\ CoverThenUndo.matrix_active_items # matrix_active_items

(***************************************************************************)
(* C20.  The columns at a choose point.  A step of algorithm_c that covers *)
(* with success reaches the call of choose with the arrays of AtChoose.    *)
(***************************************************************************)
\* the next step covers, and the cover does not fail
ReachesChoose ==
    /\ algorithm = "algorithm_c"
    /\ Running
    /\ Top(node_stack) # <<>>
    /\ cover_node(undo_if_needed(Frame)).option # n_opts

\* the generator frame at the call of choose
AtChoose == include_option(cover_node(undo_if_needed(Frame)))

\* the nodes a and b allow their options to be chosen together
Agree(a, b) ==
    options[a] = options[b]
       => (options[a] >= n_primary_items /\ colors[a] = colors[b] /\ colors[a] # 0)

\* option j shares no item with a chosen option, except secondary items on
\* which both carry the same nonzero color
Compatible(j, chosen) ==
    \A c \in Range(chosen) : \A a \in ptr_range(j) : \A b \in ptr_range(c) : Agree(a, b)

\* the nodes in the active prefix of the column of item i
ActivePrefix(m, i) ==
    {m.matrix_set[p] : p \in matrix_start_ptr(i)..(matrix_start_ptr(i) + m.matrix_size[i] - 1)}

\* the nodes of item i in options compatible with the partial solution
CompatibleNodes(m, i) ==
    {n \in DOMAIN options : options[n] = i /\ Compatible(options_j(n), m.solution)}

\* C20: at every choose point and for every active item i, the active
\* prefix of the column of i holds exactly the nodes of i in the options
\* compatible with the partial solution, and matrix_size[i] is their number.
C20_ActivePrefixIsCompatible ==
    ReachesChoose =>
       \A i \in ActiveItems(AtChoose) :
          /\ ActivePrefix(AtChoose, i) = CompatibleNodes(AtChoose, i)
          /\ AtChoose.matrix_size[i] = Cardinality(CompatibleNodes(AtChoose, i))

\* a choose point with an option chosen, where an active item has lost a
\* node and keeps one whose option shares a colored item with the chosen one
C20_Witness ==
    /\ ReachesChoose
    /\ AtChoose.solution # <<>>
    /\ \E i \in ActiveItems(AtChoose) :
          /\ \E n \in DOMAIN options : options[n] = i /\ n \notin ActivePrefix(AtChoose, i)
          /\ \E n \in ActivePrefix(AtChoose, i) :
                \E a \in ptr_range(options_j(n)) :
                   \E b \in ptr_range(AtChoose.solution[1]) : options[a] = options[b]

(***************************************************************************)
(* C21.  Implicit restoration.  A snapshot lives on state_stack from the   *)
(* push of its frame to the backtrack out of it; the sets it restores are  *)
(* those of the arrays after undo of it.                                   *)
(***************************************************************************)
\* the set of active items and, for every item, the set of nodes in the
\* active prefix of its column
ActiveSets(m) ==
    [ items |-> ActiveItems(m),
      nodes |-> [i \in 0..(n_items - 1) |-> ActivePrefix(m, i)] ]

\* the frames whose snapshot is on state_stack before and after a step
Persisting ==
    {d \in 1..Len(state_stack) : d <= Len(state_stack') /\ state_stack[d] # null_state}

\* a step leaves alone the sets that undo of any snapshot on the stack restores
StepKeepsSnapshotSets ==
    \A d \in Persisting :
       /\ state_stack'[d] = state_stack[d]
       /\ ActiveSets(undo(Frame', state_stack[d])) = ActiveSets(undo(Frame, state_stack[d]))

\* a snapshot that a step pushes is of the arrays as the step leaves them
PushSavesCurrent ==
    (Len(state_stack') > Len(state_stack) /\ Top(state_stack') # null_state)
       => /\ Top(state_stack') = save_state(Frame')
          /\ ActiveSets(undo(Frame', Top(state_stack'))) = ActiveSets(Frame')

\* C21: from the save of a snapshot to the backtrack out of its frame, undo
\* of the snapshot gives the set of active items and the sets of nodes in
\* the active prefixes that the arrays had at the save, whatever was removed
\* and deactivated in between.
C21_ImplicitRestoration ==
    [][StepKeepsSnapshotSets /\ PushSavesCurrent]_vars

\* an undo is pending in a frame below the root after something was
\* yielded, and the undo gives back items and nodes
C21_Witness ==
    /\ Running
    /\ need_to_undo
    /\ Len(state_stack) >= 2
    /\ Top(node_stack) # <<>>
    /\ Top(state_stack) # null_state
    /\ yielded # <<>>
    /\ ActiveItems(undo(Frame, Top(state_stack))) # ActiveItems(Frame)
    /\ \E i \in 0..(n_items - 1) :
          ActivePrefix(undo(Frame, Top(state_stack)), i) # ActivePrefix(Frame, i)

(***************************************************************************)
(* C22..C24.  The choice of the next item.  The step of either algorithm   *)
(* that covers with success calls choose on the arrays of AtChoose, unless *)
(* algorithm_z finds the signature in its memo cache.                      *)
(***************************************************************************)
\* the signature algorithm_z looks up after the cover of the next step
to_memo == signature(AtChoose, AtChoose.matrix_active_items_len)

\* the next step finds its signature in the memo cache
CacheHit ==
    /\ algorithm = "algorithm_z"
    /\ use_memo_cache
    /\ to_memo \in DOMAIN memo_cache

\* the next step calls choose
CallsChoose ==
    /\ Running
    /\ Top(node_stack) # <<>>
    /\ ~(algorithm = "algorithm_z" /\ need_to_undo /\ Top(state_stack) = null_state)
    /\ cover_node(undo_if_needed(Frame)).option # n_opts
    /\ ~CacheHit

\* the primary items that are active at the call of choose
ActivePrimary == {i \in ActiveItems(AtChoose) : i < n_primary_items}

\* C22: choose returns n_items if and only if no primary item is active, and
\* an active primary item whenever there is one.
C22_NoItemIffNoPrimaryActive ==
    CallsChoose =>
       /\ choose(AtChoose)[1] = n_items <=> ActivePrimary = {}
       /\ ActivePrimary # {} => choose(AtChoose)[1] \in ActivePrimary

\* the next step calls choose of algorithm_c or choose_mrv of algorithm_z
CallsChooseMrv ==
    CallsChoose /\ ~(algorithm = "algorithm_z" /\ choose_heuristic = "leftmost")

\* C23: an item that the MRV choice returns is an active primary item whose
\* matrix_size is the smallest among the active primary items; no secondary
\* item is returned.
C23_MrvReturnsSmallest ==
    (CallsChooseMrv /\ choose(AtChoose)[1] # n_items) =>
       /\ choose(AtChoose)[1] \in ActivePrimary
       /\ \A i \in ActivePrimary :
             AtChoose.matrix_size[choose(AtChoose)[1]] <= AtChoose.matrix_size[i]

\* C23 amended: an item that the MRV choice returns is an active primary
\* item; its matrix_size is the smallest among the active primary items,
\* unless it is 1 and the scan of the active list stopped at the item, before
\* it reached the active primary items of size 0.
C23_MrvReturnsSmallestOrForced ==
    (CallsChooseMrv /\ choose(AtChoose)[1] # n_items) =>
       /\ choose(AtChoose)[1] \in ActivePrimary
       /\ \A i \in ActivePrimary :
             AtChoose.matrix_size[i] < AtChoose.matrix_size[choose(AtChoose)[1]]
                => /\ AtChoose.matrix_size[choose(AtChoose)[1]] = 1
                   /\ AtChoose.matrix_active_items_sparse[choose(AtChoose)[1]]
                         < AtChoose.matrix_active_items_sparse[i]

\* the MRV choice returns an item with two or more options although an
\* active primary item with more options comes before it in the active list
C23_Witness ==
    /\ CallsChooseMrv
    /\ choose(AtChoose)[1] # n_items
    /\ AtChoose.matrix_size[choose(AtChoose)[1]] >= 2
    /\ \E i \in ActivePrimary :
          /\ AtChoose.matrix_size[i] > AtChoose.matrix_size[choose(AtChoose)[1]]
          /\ AtChoose.matrix_active_items_sparse[i]
                < AtChoose.matrix_active_items_sparse[choose(AtChoose)[1]]

\* the next step calls choose_leftmost
CallsChooseLeftmost ==
    CallsChoose /\ algorithm = "algorithm_z" /\ choose_heuristic = "leftmost"

\* the step pushes the item that choose returns on item_stack
PushesChosen == item_stack' = Append(item_stack, choose(AtChoose)[1])

\* every primary item with an id below that of the returned item is
\* inactive; no primary item is active when n_items is returned
LowerAreInactive == \A i \in ActivePrimary : choose(AtChoose)[1] <= i

\* the returned item is above every item chosen for a frame on the stack
\* (item_stack[1] is the sentinel of the root)
AboveStack == \A d \in 2..Len(item_stack) : item_stack[d] < choose(AtChoose)[1]

\* C24: under the leftmost heuristic the item chosen at each step is the
\* active primary item with the lowest id: every primary item with a lower
\* id is inactive, and the items pushed on item_stack increase with depth.
C24_LeftmostChoosesLowest ==
    [][CallsChooseLeftmost =>
          /\ PushesChosen
          /\ LowerAreInactive
          /\ choose(AtChoose)[1] # n_items
                => (choose(AtChoose)[1] \in ActivePrimary /\ AboveStack)]_vars

\* the leftmost choice returns an item above one that is on item_stack
C24_Witness ==
    /\ CallsChooseLeftmost
    /\ Len(item_stack) >= 2
    /\ choose(AtChoose)[1] \in ActivePrimary
    /\ choose(AtChoose)[1] > item_stack[2]

(***************************************************************************)
(* C25.  The last-chance abort.  The step that tries a node of an option   *)
(* covers from the arrays of BeforeCover and reaches those of AfterCover.  *)
(***************************************************************************)
\* the next step calls cover
TriesCover ==
    /\ Running
    /\ Top(node_stack) # <<>>
    /\ Top(Top(node_stack)) < n_data
    /\ ~(algorithm = "algorithm_z" /\ need_to_undo /\ Top(state_stack) = null_state)

BeforeCover == undo_if_needed(Frame)

AfterCover == cover_node(BeforeCover)

\* the option whose node the next step tries, and the item it covers
TriedOption == options_j(Top(Top(node_stack)))

CoveredItem == Top(item_stack)

CoverFails == TriesCover /\ AfterCover.option = n_opts

\* the primary items that are active before the cover and are no items of
\* the option: they are still active when its items are deactivated
StillActivePrimary ==
    {i \in ActiveItems(BeforeCover) :
        i < n_primary_items /\ i \notin OptionItems(TriedOption)}

\* hiding every option that cannot be chosen together with the tried one
\* would leave item i, which has active nodes, without any
LosesLastNode(i) ==
    /\ ActivePrefix(BeforeCover, i) # {}
    /\ \A n \in ActivePrefix(BeforeCover, i) : ~Compatible(options_j(n), <<TriedOption>>)

\* the cover fails exactly when a still-active primary item would lose its
\* last node
FailsIffLastNode ==
    TriesCover => (CoverFails <=> \E i \in StillActivePrimary : LosesLastNode(i))

\* no cover, failed or not, takes the size of a still-active primary item
\* from 1 to 0
NeverRemovesLastNode ==
    TriesCover =>
       \A i \in StillActivePrimary :
          AfterCover.m.matrix_size[i] = 0 => BeforeCover.matrix_size[i] = 0

\* the step of a failed cover appends nothing to the partial solution,
\* yields nothing and pushes no frame, and the next step is a backtrack or
\* begins with an undo
FailedStep ==
    CoverFails =>
       /\ solution' = solution
       /\ yielded' = yielded
       /\ Len(node_stack') = Len(node_stack)
       /\ need_to_undo'
       /\ (Top(node_stack') = <<>> \/ Top(state_stack') # null_state)

\* C25: cover fails exactly when a hide of step C7 reaches a node whose
\* removal would take the size of a still-active primary item from 1 to 0;
\* no cover performs such a removal; the failed option is not appended to
\* the partial solution and the next step is an undo or a backtrack.
C25_LastChanceAbort ==
    /\ [](FailsIffLastNode /\ NeverRemovesLastNode)
    /\ [][FailedStep]_vars

\* a cover fails after it has removed a node
C25_Witness ==
    /\ CoverFails
    /\ AfterCover.m.matrix_size # BeforeCover.matrix_size

(***************************************************************************)
(* C26.  Restore before retry.  The values of matrix_size and of the       *)
(* active length when a frame is pushed are those of its snapshot.         *)
(***************************************************************************)
\* cover is called with the sizes and the active length of the snapshot of
\* the frame on top
CoverFromSnapshot ==
    (TriesCover /\ Top(state_stack) # null_state) =>
       /\ BeforeCover.matrix_size = Top(state_stack).matrix_size
       /\ BeforeCover.matrix_active_items_len = Top(state_stack).matrix_active_items_len

\* the snapshot of a frame is taken of the arrays with which the step that
\* pushes the frame ends, and stays as it is while the frame is on the stack;
\* algorithm_c takes a snapshot for every frame
SnapshotIsOfPush ==
    /\ \A d \in 1..Len(state_stack) :
          d <= Len(state_stack') => state_stack'[d] = state_stack[d]
    /\ (Len(state_stack') > Len(state_stack) /\ Top(state_stack') # null_state)
          => /\ Top(state_stack').matrix_size = matrix_size'
             /\ Top(state_stack').matrix_active_items_len = matrix_active_items_len'
    /\ (algorithm = "algorithm_c" /\ state_stack' # <<>>)
          => Top(state_stack') # null_state

\* C26: every time cover is called on a node of the branch list of a frame
\* (first branch, after a failed cover, after a yield, after a backtrack
\* from deeper frames), matrix_size and the active length have the values
\* they had when the frame was pushed.
C26_RestoreBeforeRetry == []CoverFromSnapshot /\ [][SnapshotIsOfPush]_vars

\* cover is called for a retry: the sizes and the active length differ from
\* the snapshot until the undo that the step begins with
C26_Witness ==
    /\ TriesCover
    /\ need_to_undo
    /\ Top(state_stack) # null_state
    /\ matrix_size # Top(state_stack).matrix_size
    /\ matrix_active_items_len # Top(state_stack).matrix_active_items_len

(***************************************************************************)
(* C27.  The inactive items at a choose point and at a yield.  The arrays  *)
(* of AtChoose are those with which choose is called, and with which the   *)
(* partial solution is yielded when choose returns n_items.                *)
(***************************************************************************)
\* the cover of the next step succeeds (the root step covers nothing)
CoverSucceeds ==
    /\ Running
    /\ Top(node_stack) # <<>>
    /\ ~(algorithm = "algorithm_z" /\ need_to_undo /\ Top(state_stack) = null_state)
    /\ AfterCover.option # n_opts

InactiveItems(m) == (0..(n_items - 1)) \ ActiveItems(m)

\* the items of the options of a partial solution
ChosenItems(chosen) == UNION {OptionItems(j) : j \in Range(chosen)}

\* C27: at every choose point and at every yield the inactive items are
\* exactly the items of the options of the partial solution.
C27_InactiveAreChosenItems ==
    CoverSucceeds => InactiveItems(AtChoose) = ChosenItems(AtChoose.solution)

\* an option is chosen, a secondary item is among its items and a primary
\* item is left active
C27_Witness ==
    /\ CoverSucceeds
    /\ AtChoose.solution # <<>>
    /\ \E i \in InactiveItems(AtChoose) : i >= n_primary_items
    /\ \E i \in ActiveItems(AtChoose) : i < n_primary_items

(***************************************************************************)
(* C28.  Color-compatible hiding.                                          *)
(***************************************************************************)
\* the next step covers with a node of an option, and the cover succeeds
OptionCovered == TriesCover /\ AfterCover.option # n_opts

\* the options that have a node in the active prefix of the column of an
\* active item after the cover
AliveOptions ==
    {options_j(n) : n \in UNION {ActivePrefix(AtChoose, i) : i \in ActiveItems(AtChoose)}}

\* the secondary items of option j
SecondaryOf(j) == {i \in OptionItems(j) : i >= n_primary_items}

\* C28: after a successful cover of an option that carries the nonzero
\* color c on the secondary item s, every option that contains s and still
\* has a node in the active prefix of the column of an active item carries
\* c on s; if the covered option contains s uncolored, no such option is left.
C28_ColorCompatibleHiding ==
    OptionCovered =>
       \A s \in SecondaryOf(TriedOption) :
          \A j \in AliveOptions :
             s \in OptionItems(j)
                => /\ ColorIn(TriedOption, s) # 0
                   /\ ColorIn(j, s) = ColorIn(TriedOption, s)

\* the covered option carries a color on a secondary item, an option with
\* the same color on the item is left in an active column, and the problem
\* has an option with another color on the item
C28_Witness ==
    /\ OptionCovered
    /\ \E s \in SecondaryOf(TriedOption) :
          /\ \E j \in AliveOptions : s \in OptionItems(j)
          /\ \E k \in DOMAIN options :
                options[k] = s /\ colors[k] # ColorIn(TriedOption, s)

(***************************************************************************)
(* C29.  Insertion into the memo cache of algorithm_z.                     *)
(***************************************************************************)
\* the next step backtracks out of a frame below the root, with the memo
\* cache in use: it pops hi from zdd_stack and memo from memo_stack
BacktracksWithMemo ==
    /\ algorithm = "algorithm_z"
    /\ use_memo_cache
    /\ Running
    /\ Top(node_stack) = <<>>
    /\ solution # <<>>

\* C29 as stated: no entry of the memo cache maps a signature to 0.
C29_NoZeroInCache == \A k \in DOMAIN memo_cache : memo_cache[k] # 0

\* the step of a backtrack adds its signature with its hi, whatever hi is,
\* unless the signature has an entry; no other step adds an entry
InsertsOnBacktrack ==
    IF BacktracksWithMemo /\ Top(memo_stack) \notin DOMAIN memo_cache
    THEN /\ DOMAIN memo_cache' = DOMAIN memo_cache \cup {Top(memo_stack)}
         /\ memo_cache'[Top(memo_stack)] = Top(zdd_stack)
    ELSE DOMAIN memo_cache' = DOMAIN memo_cache

\* an entry of the memo cache is never changed
EntriesKept == \A k \in DOMAIN memo_cache : memo_cache'[k] = memo_cache[k]

\* C29 amended: when a frame backtracks, the signature captured on entry is
\* associated with the frame's hi unless the signature has an entry, also
\* when hi is 0; entries are added by no other step and never changed.
C29_InsertsEveryHi == [][InsertsOnBacktrack /\ EntriesKept]_vars

\* a signature is associated with the id 0
C29_Witness ==
    /\ algorithm = "algorithm_z"
    /\ use_memo_cache
    /\ \E k \in DOMAIN memo_cache : memo_cache[k] = 0

(***************************************************************************)
(* C30.  A hit in the memo cache of algorithm_z.                           *)
(***************************************************************************)
\* the cover of the next step succeeds and its signature is in the cache
HitsCache == CoverSucceeds /\ CacheHit

\* the arrays of the substrate of a generator frame
Arrays(m) ==
    << m.matrix_size, m.matrix_active_items_len, m.matrix_old_active_items_len,
       m.matrix_set, m.matrix_loc, m.matrix_active_items,
       m.matrix_active_items_sparse, m.item_colorings >>

\* the step of a hit ends with the arrays the cover left and pushes a leaf
\* frame that holds the cached id
HitPushesLeaf ==
    HitsCache =>
       /\ Arrays(Frame') = Arrays(AtChoose)
       /\ zdd_stack' = Append(zdd_stack, memo_cache[to_memo])
       /\ node_stack' = Append(AtChoose.node_stack, <<>>)
       /\ state_stack' = Append(state_stack, null_state)
       /\ item_stack' = Append(item_stack, n_data)
       /\ memo_stack' = Append(memo_stack, to_memo)

\* the backtrack out of a frame changes no array and takes the id on top
\* of zdd_stack as the hi of the node it emits
BacktrackKeepsArrays ==
    (algorithm = "algorithm_z" /\ Running /\ Top(node_stack) = <<>>) =>
       /\ Arrays(Frame') = Arrays(Frame)
       /\ yielded' # yielded => Top(yielded')[4] = Top(zdd_stack)

\* C30: on a hit the cached id becomes the hi of the branch, no choose,
\* deactivate_item or hide is executed for the frame, and the arrays are
\* unchanged from the hit until the backtrack out of the leaf frame in the
\* next step.
C30_HitIsLeaf == [][HitPushesLeaf /\ BacktrackKeepsArrays]_vars

\* a hit on an entry that a backtrack has added, with a primary item active
C30_Witness ==
    /\ HitsCache
    /\ memo_cache[to_memo] >= 2
    /\ ActivePrimary # {}

(***************************************************************************)
(* C31.  The contents of the signature of algorithm_z.  With the memo      *)
(* cache in use the signature is computed after every successful cover,    *)
(* from the arrays of AtChoose.                                            *)
(***************************************************************************)
\* the next step computes a signature
ComputesSignature == CoverSucceeds /\ algorithm = "algorithm_z" /\ use_memo_cache

\* the colors that the options of a partial solution carry on item s
FixedColors(s, chosen) ==
    {ColorIn(j, s) : j \in {c \in Range(chosen) : s \in OptionItems(c)}}

\* the color fixed for item s by the options chosen, 0 if none contains s
FixedColor(s, chosen) ==
    IF FixedColors(s, chosen) = {} THEN 0
    ELSE CHOOSE c \in FixedColors(s, chosen) : \A c2 \in FixedColors(s, chosen) : c2 <= c

\* the active secondary items at the computation of the signature
ActiveSecondary == {s \in ActiveItems(AtChoose) : s >= n_primary_items}

\* C31: whenever a signature is computed, the color recorded in
\* item_colorings for each active secondary item is the color fixed for the
\* item by the options chosen so far, or 0 if no chosen option contains it.
C31_SignatureHoldsFixedColors ==
    ComputesSignature =>
       \A s \in ActiveSecondary :
          AtChoose.item_colorings[s - n_primary_items] = FixedColor(s, AtChoose.solution)

(***************************************************************************)
(* C32.  Soundness of the memo cache of algorithm_z.                       *)
(***************************************************************************)
\* the sets of options that complete a partial solution to an exact cover
Completions(chosen) ==
    {T \ Range(chosen) : T \in {E \in ExactCovers : Range(chosen) \subseteq E}}

\* the ZDD id the cache holds for the signature of the state after the cover
CachedId == memo_cache[to_memo]

\* C32: whenever a cache hit occurs, the cached ZDD id denotes exactly the
\* family of option sets that complete the current partial solution to a
\* color-consistent exact cover.
C32_HitDenotesCompletions ==
    HitsCache => NodeFamily(yielded, CachedId) = Completions(AtChoose.solution)

(***************************************************************************)
(* C33.  The forced-move optimization of algorithm_z: which frames get the *)
(* placeholder null_state instead of a snapshot, and that no undo reads a  *)
(* placeholder.                                                            *)
(***************************************************************************)
\* the frame that the next step pushes is a memo-hit leaf, a solution leaf
\* or the frame of an item with a column of size 1
ForcedOrLeaf ==
    \/ CacheHit
    \/ choose(AtChoose)[1] = n_items
    \/ choose(AtChoose)[2] = 1

\* a step of algorithm_z that pushes a frame stores the placeholder exactly
\* for a forced move or a leaf, and a snapshot of its arrays otherwise
ElidesForcedSnapshot ==
    (RunsZ /\ CoverSucceeds) =>
       /\ Len(state_stack') = Len(state_stack) + 1
       /\ Top(state_stack') = null_state <=> ForcedOrLeaf
       /\ ~ForcedOrLeaf => Top(state_stack') = save_state(Frame')

\* the next step of algorithm_z begins with undo(state_stack[-1])
UndoesTop == RunsZ /\ Running /\ need_to_undo /\ Top(node_stack) # <<>>

\* undo is applied to a snapshot, never to the placeholder
UndoReadsSnapshot ==
    /\ raised # "ValueError"
    /\ UndoesTop =>
          /\ Top(state_stack) # null_state
          /\ DOMAIN Top(state_stack).matrix_size = DOMAIN matrix_size
          /\ DOMAIN Top(state_stack).item_colorings = DOMAIN item_colorings

\* algorithm_z with save_state() in place of every null_state
push_leaf_saving(m, id, sig, item) ==
    [push_leaf(m, id, sig, item) EXCEPT
        !.state_stack = Append(m.state_stack, save_state(m))]

push_frame_saving(m, item) ==
    [m EXCEPT !.state_stack = Append(@, save_state(m)),
              !.node_stack = Append(@, active_options(m, item))]

branch_on_item_saving(m, sig, ch) ==
    IF ch[1] = n_items
    THEN push_leaf_saving(m, 1, sig, ch[1])
    ELSE push_frame_saving(expand(push_choice(m, sig, ch[1]), ch[1]), ch[1])

lookup_or_choose_saving(m, sig) ==
    IF use_memo_cache /\ sig \in DOMAIN m.memo_cache
    THEN push_leaf_saving(m, m.memo_cache[sig], sig, n_data)
    ELSE branch_on_item_saving(m, sig, choose(m))

after_option_saving(m) ==
    lookup_or_choose_saving(m, signature(m, m.matrix_active_items_len))

after_cover_saving(c) ==
    IF c.option = n_opts
    THEN [c.m EXCEPT !.need_to_undo = TRUE]
    ELSE after_option_saving(include_option(c))

loop_saving(m) ==
    IF Len(Top(m.node_stack)) = 0
    THEN loop_backtrack_z(m)
    ELSE after_cover_saving(cover_node(undo_if_needed(m)))

RECURSIVE run_saving(_)
run_saving(m) == IF InLoop(m) THEN run_saving(loop_saving(m)) ELSE m

\* the stream of the current run if a snapshot were saved for every frame
StreamWithSnapshots ==
    run_saving(InitialFrame(Problem, "algorithm_z", use_memo_cache, 0)).yielded

\* the finished stream is the stream of the run that saves every snapshot
SameStreamAsSaving == (RunsZ /\ Finished) => yielded = StreamWithSnapshots

\* C33: a frame whose chosen item has column size 1, a memo-hit leaf and a
\* solution leaf store a placeholder instead of a snapshot; undo is never
\* applied to a placeholder, every undo restores a snapshot saved for the
\* frame on top of the stack; and the stream emitted is the same as if a
\* snapshot had been saved for every frame.
C33_ForcedMoveElision ==
    /\ [](UndoReadsSnapshot /\ SameStreamAsSaving)
    /\ [][ElidesForcedSnapshot /\ SnapshotIsOfPush]_vars

\* an undo is about to restore the snapshot of the frame on top while a
\* frame below it, pushed for a forced move, holds the placeholder
C33_Witness ==
    /\ UndoesTop
    /\ Top(state_stack) # null_state
    /\ \E d \in 2..(Len(state_stack) - 1) :
          state_stack[d] = null_state /\ item_stack[d] < n_items

(***************************************************************************)
(* C34.  The calls of remove_node and deactivate_item.  They are made      *)
(* inside the loops of hide and cover, between two states of the search:   *)
(* the operators below walk the same loops, one iteration of the model at  *)
(* a time, and tell whether every call made on the way is sound.           *)
(***************************************************************************)
\* remove_node(node) is called on a node in the active prefix of its column
\* (so matrix_size of the item is at least 1) and evicts that node only
RemoveIsSound(m, node) ==
    /\ m.matrix_loc[node] < matrix_start_ptr(options[node]) + m.matrix_size[options[node]]
    /\ m.matrix_size[options[node]] >= 1
    /\ ActiveNodes(remove_node(m, node)) = ActiveNodes(m) \ {node}

\* deactivate_item(item) is called on an active item (so the active length
\* is at least 1) and evicts that item only
DeactivateIsSound(m, item) ==
    /\ IsActive(m, item, m.matrix_active_items_len)
    /\ m.matrix_active_items_len >= 1
    /\ ActiveItems(deactivate_item(m, item)) = ActiveItems(m) \ {item}

\* the calls of remove_node in the iterations k..kend-1 of the inner loop of hide
RECURSIVE hide_option_sound(_, _, _, _, _)
hide_option_sound(r, item, initial, k, kend) ==
    IF ~r.status \/ k >= kend THEN TRUE
    ELSE
      LET removes == /\ options[k] # item
                     /\ IsActive(r.m, options[k], r.m.matrix_old_active_items_len)
                     /\ ~last_chance(r.m, options[k], initial)
      IN /\ removes => RemoveIsSound(r.m, k)
         /\ hide_option_sound(hide_option(r, item, initial, k, k + 1),
                              item, initial, k + 1, kend)

\* the calls of remove_node in the iterations p..pend-1 of the outer loop of hide
RECURSIVE hide_nodes_sound(_, _, _, _, _, _)
hide_nodes_sound(r, item, col, initial, p, pend) ==
    IF ~r.status \/ p >= pend THEN TRUE
    ELSE
      /\ to_hide(r.m.matrix_set[p], col) =>
            hide_option_sound(r, item, initial,
                              options_ptr[options_j(r.m.matrix_set[p])],
                              options_ptr[options_j(r.m.matrix_set[p]) + 1])
      /\ hide_nodes_sound(hide_nodes(r, item, col, initial, p, p + 1),
                          item, col, initial, p + 1, pend)

\* the calls of remove_node in hide(item, col, initial)
hide_sound(m, item, col, initial) ==
    hide_nodes_sound([status |-> TRUE, m |-> m], item, col, initial,
                     matrix_start_ptr(item), matrix_start_ptr(item) + m.matrix_size[item])

\* the calls of deactivate_item in C6 of cover (the nodes ptr..pend-1)
RECURSIVE cover_deactivate_sound(_, _, _, _)
cover_deactivate_sound(m, item, ptr, pend) ==
    IF ptr >= pend THEN TRUE
    ELSE
      /\ (options[ptr] # item /\ IsActive(m, options[ptr], m.matrix_active_items_len))
            => DeactivateIsSound(m, options[ptr])
      /\ cover_deactivate_sound(cover_deactivate(m, item, ptr, ptr + 1),
                                item, ptr + 1, pend)

\* the calls of remove_node in C7 of cover (the nodes ptr..pend-1)
RECURSIVE cover_hide_sound(_, _, _, _)
cover_hide_sound(r, item, ptr, pend) ==
    IF ~r.status \/ ptr >= pend THEN TRUE
    ELSE
      /\ hide_wanted(r.m, options[ptr], item) =>
            hide_sound(r.m, options[ptr], colors[ptr], FALSE)
      /\ cover_hide_sound(cover_hide(r, item, ptr, ptr + 1), item, ptr + 1, pend)

\* the calls in the two loops of cover, m being the arrays after the
\* assignment of matrix_old_active_items_len
cover_loops_sound(m, item, ptr, pend) ==
    /\ cover_deactivate_sound(m, item, ptr, pend)
    /\ cover_hide_sound([status |-> TRUE, m |-> cover_deactivate(m, item, ptr, pend)],
                        item, ptr, pend)

\* the calls in cover(node, item)
cover_sound(m, node, item) ==
    cover_loops_sound(
        [m EXCEPT !.matrix_old_active_items_len = m.matrix_active_items_len],
        item, options_ptr[options_j(node)], options_ptr[options_j(node) + 1])

\* the calls in hide(item, 0, True) of C4, m being the arrays after C3
expand_hide_sound(m, item) ==
    hide_sound([m EXCEPT !.matrix_old_active_items_len = m.matrix_active_items_len],
               item, 0, TRUE)

\* the calls in C3 and C4, after choose has returned item
expand_sound(m, item) ==
    /\ DeactivateIsSound(m, item)
    /\ expand_hide_sound(deactivate_item(m, item), item)

\* the calls of the cover that the next step tries
CoverCallsSound ==
    TriesCover => cover_sound(BeforeCover, Top(Top(node_stack)), Top(item_stack))

\* the calls of C3 and C4 when the next step chooses an item
ExpandCallsSound ==
    (CallsChoose /\ choose(AtChoose)[1] # n_items) =>
        expand_sound(AtChoose, choose(AtChoose)[1])

\* C34: remove_node is only called on a node in the active prefix of the
\* column of its item and deactivate_item only on an active item:
\* matrix_size and the active length never go below 0 and no call evicts
\* another node or item than the one it is called on.
C34_CallsOnActiveOnly == CoverCallsSound /\ ExpandCallsSound

\* the next step retries a cover after an undo; the cover succeeds,
\* deactivates an item and removes a node
C34_Witness ==
    /\ TriesCover
    /\ need_to_undo
    /\ AfterCover.option # n_opts
    /\ AfterCover.m.matrix_active_items_len < BeforeCover.matrix_active_items_len
    /\ ActiveNodes(AfterCover.m) # ActiveNodes(BeforeCover)

(***************************************************************************)
(* C35.  Pops from the stacks.  The model sets raised to "IndexError" when *)
(* solution.pop() of algorithm_c, or zdd_stack.pop(), zdd_stack[-1] or     *)
(* memo_stack.pop() of algorithm_z, finds its list empty.                  *)
(***************************************************************************)
\* the generator has ended with StopIteration, its loop left at the test
EndedNormally == node_stack = <<>> /\ raised = "none"

\* C35: the search never pops from an empty stack, in algorithm_c after a
\* yield and in algorithm_z at the pops of zdd_stack and memo_stack and at
\* zdd_stack[-1], and the sequence ends normally.
C35_NeverPopsEmptyStack ==
    /\ raised # "IndexError"
    /\ Finished => EndedNormally

====
